---------------------------- MODULE Spec2Model ----------------------------
(***************************************************************************)
(* Food-trend pipeline: the stages of FoodDataProcessor                    *)
(* (src/data_processor.py) from the fetch to the feature matrix, the       *)
(* training run that stores the predictions (src/model.py), the prediction *)
(* service (src/predict_service.py) and the extraction of food mentions    *)
(* from a text (src/etl.py).                                               *)
(*                                                                         *)
(* Time is counted in whole days (created_utc is a day number, day 0 a     *)
(* Monday).  Every float of the program is modelled as an exact rational   *)
(* [n |-> numerator, d |-> denominator], kept in lowest terms.             *)
(***************************************************************************)
EXTENDS Integers, Sequences, FiniteSets, TLC

VARIABLES
    food_df,      \* the mention stream handed to aggregate_food_metrics
    metrics_df,   \* the Window Metrics Records (output of aggregate_food_metrics)
    labels_df,    \* the Trend Score Records (output of create_trend_labels)
    pc,           \* the stage the run has reached
    store,        \* the store: its posts, its predictions table, whether it answers
    posts_df,     \* the batch fetch_data returned (df of process_pipeline)
    scaler,       \* the fit state of the StandardScaler of the processor
    result,       \* what process_pipeline returned
    log,          \* the failure lines the run printed
    train,        \* the last train_pipeline run: how it ended, the posts the
                  \* store held, the prediction_records it emitted
    disk,         \* models/xgboost_model.pkl: <<the pickled classifier>>, if any
    service,      \* <<the TrendPredictionService>>, once constructed
    call,         \* <<the last predict_new_food call>>: arguments, metrics, answer
    text,         \* the text handed to extract_food_mentions, character by character
    found_foods,  \* the list extract_food_mentions returned
    runs,         \* the concurrent train_pipeline runs: where each one is and
                  \* the prediction_records it emitted
    applied,      \* the runs whose upsert the store applied, in that order
    upload        \* the store_posts_in_supabase call: the posts handed over,
                  \* the batches the store committed, what the call returned

\* the variables of the store and of the pipeline around the stages
env == <<store, posts_df, scaler, result, log, train, disk, service, call,
         text, found_foods, runs, applied, upload>>

\* the variables of training, of serving and of the extraction of mentions
served == <<train, disk, service, call, text, found_foods, runs, applied,
           upload>>

vars == <<food_df, metrics_df, labels_df, pc, store, posts_df, scaler, result,
          log, train, disk, service, call, text, found_foods, runs, applied,
          upload>>

---------------------------------------------------------------------------
(* Exact rational arithmetic, standing for Python / numpy float arithmetic *)

Abs(x) == IF x < 0 THEN -x ELSE x

RECURSIVE GCD(_, _)
GCD(a, b) == IF b = 0 THEN a ELSE GCD(b, a % b)

\* num / den in lowest terms, den > 0
Rat(num, den) ==
    LET g == GCD(Abs(num), Abs(den))
        s == IF den < 0 THEN -1 ELSE 1
    IN  [n |-> s * (num \div g), d |-> s * (den \div g)]

RInt(k)    == [n |-> k, d |-> 1]
RAdd(a, b) == Rat(a.n * b.d + b.n * a.d, a.d * b.d)
RSub(a, b) == Rat(a.n * b.d - b.n * a.d, a.d * b.d)
RMul(a, b) == Rat(a.n * b.n, a.d * b.d)
RLt(a, b)  == a.n * b.d < b.n * a.d
RLe(a, b)  == a.n * b.d <= b.n * a.d
REq(a, b)  == a.n * b.d = b.n * a.d

Max(a, b) == IF a >= b THEN a ELSE b

RECURSIVE SeqSum(_)
SeqSum(s) == IF s = <<>> THEN 0 ELSE Head(s) + SeqSum(Tail(s))

RECURSIVE RSeqSum(_)
RSeqSum(s) == IF s = <<>> THEN RInt(0) ELSE RAdd(Head(s), RSeqSum(Tail(s)))

RECURSIVE SeqMax(_)
SeqMax(s) == IF Len(s) = 1 THEN Head(s) ELSE Max(Head(s), SeqMax(Tail(s)))

Column(df, f(_)) == [i \in 1..Len(df) |-> f(df[i])]

RECURSIVE Concat(_)
Concat(ss) == IF ss = <<>> THEN <<>> ELSE Head(ss) \o Concat(Tail(ss))

---------------------------------------------------------------------------
(* Inputs                                                                  *)

Foods == <<"ramen", "sushi">>

\* The documents a mention stream is drawn from, in ascending creation
\* order: creation day and raw signals (community, score, comment count,
\* approval ratio).  Day 33 is 7 days, day 26 is 14 days before day 40.
Documents ==
    << [created_utc |-> 0,  subreddit |-> "food",   score |-> 10,
        num_comments |-> 2, upvote_ratio |-> Rat(9, 10)],
       [created_utc |-> 26, subreddit |-> "Baking", score |-> 40,
        num_comments |-> 5, upvote_ratio |-> Rat(1, 2)],
       [created_utc |-> 33, subreddit |-> "food",   score |-> 25,
        num_comments |-> 0, upvote_ratio |-> Rat(3, 4)],
       [created_utc |-> 40, subreddit |-> "Baking", score |-> 7,
        num_comments |-> 9, upvote_ratio |-> Rat(1, 1)] >>

\* Bound on the length of the mention stream.
MaxMentions == 9

---------------------------------------------------------------------------
(* Per-document stages                                                     *)

\* utils.calculate_engagement_score(score, comments, upvote_ratio): the
\* ratio is <<>> for None, <<r>> for a ratio r
utils_calculate_engagement_score(score, comments, upvote_ratio) ==
    LET engagement == RAdd(RMul(RInt(score), RInt(1)), RMul(RInt(comments), RInt(2)))
    IN  IF upvote_ratio # <<>>
        THEN RAdd(engagement, RMul(upvote_ratio[1], RInt(100)))
        ELSE engagement

\* Faulty variant of calculate_engagement_score: a comment weighs as much as a point of score.
calculate_engagement_score_FlatComments(row) ==
    RAdd(RAdd(RMul(RInt(row.score), RInt(1)),
              RMul(RInt(row.num_comments), RInt(1))),
         RMul(row.upvote_ratio, RInt(100)))

\* score * 1.0 + num_comments * 2.0 + upvote_ratio * 100
calculate_engagement_score(row) ==
    RAdd(RAdd(RMul(RInt(row.score), RInt(1)),
              RMul(RInt(row.num_comments), RInt(2))),
         RMul(row.upvote_ratio, RInt(100)))

\* dayofweek.isin([5, 6]).astype(int); day 0 is a Monday
is_weekend(created_utc) == IF (created_utc % 7) \in {5, 6} THEN 1 ELSE 0

\* The Mention Record create_food_dataset appends for one (document, food).
MentionRecord(food, row) ==
    [food             |-> food,
     subreddit        |-> row.subreddit,
     score            |-> row.score,
     num_comments     |-> row.num_comments,
     upvote_ratio     |-> row.upvote_ratio,
     engagement_score |-> calculate_engagement_score(row),
     created_utc      |-> row.created_utc,
     is_weekend       |-> is_weekend(row.created_utc)]

---------------------------------------------------------------------------
(* Window Aggregator: FoodDataProcessor.aggregate_food_metrics             *)

\* if len(food_subset) < 5: continue
MinMentions == 5

\* for days in [7, 14, 30]
Windows == <<7, 14, 30>>

\* food_df.sort_values('created_utc'): rows in ascending creation order,
\* rows of equal creation time keeping their order.
RECURSIVE InsertByCreated(_, _)
InsertByCreated(row, s) ==
    IF s = <<>> THEN <<row>>
    ELSE IF row.created_utc < Head(s).created_utc THEN <<row>> \o s
    ELSE <<Head(s)>> \o InsertByCreated(row, Tail(s))

RECURSIVE SortByCreated(_)
SortByCreated(df) ==
    IF df = <<>> THEN <<>>
    ELSE InsertByCreated(df[Len(df)], SortByCreated(SubSeq(df, 1, Len(df) - 1)))

\* food_df['food'].unique(): the distinct foods in order of first appearance
RECURSIVE Unique(_)
Unique(s) ==
    IF s = <<>> THEN <<>>
    ELSE LET init == Unique(SubSeq(s, 1, Len(s) - 1))
             last == s[Len(s)]
         IN  IF \E i \in 1..Len(init) : init[i] = last THEN init
             ELSE Append(init, last)

\* Faulty variant of FoodSubset: the rows of every food are taken.
FoodSubset_AllFoods(df, food) == df

\* food_df[food_df['food'] == food]
FoodSubset(df, food) ==
    LET IsFood(r) == r.food = food IN SelectSeq(df, IsFood)

\* Faulty variant of Now: the window is anchored on the latest row of the whole stream.
Now_GlobalClock(food_subset) ==
    LET Created(r) == r.created_utc IN SeqMax(Column(food_df, Created))

\* now = food_subset['created_utc'].max()
Now(food_subset) ==
    LET Created(r) == r.created_utc IN SeqMax(Column(food_subset, Created))

\* Faulty variant of Recent: the row exactly on the cutoff is left out.
Recent_Strict(food_subset, cutoff) ==
    LET After(r) == r.created_utc > cutoff IN SelectSeq(food_subset, After)

\* recent = food_subset[food_subset['created_utc'] >= cutoff]
Recent(food_subset, cutoff) ==
    LET InWindow(r) == r.created_utc >= cutoff IN SelectSeq(food_subset, InWindow)

\* older = food_subset[food_subset['created_utc'] < cutoff]
Older(food_subset, cutoff) ==
    LET Before(r) == r.created_utc < cutoff IN SelectSeq(food_subset, Before)

\* Faulty variant of Velocity: the divisor is the canonical 7-day window.
Velocity_PerWeek(n_recent, days) == Rat(n_recent, 7)

\* len(recent) / days
Velocity(n_recent, days) == Rat(n_recent, days)

\* Faulty variant of GrowthRate: the change is taken relative to the recent count.
GrowthRate_OverRecent(n_recent, n_older) ==
    IF n_older > 0 THEN Rat(n_recent - n_older, Max(n_recent, 1)) ELSE RInt(1)

\* (len(recent) - len(older)) / max(len(older), 1) if len(older) > 0 else 1.0
GrowthRate(n_recent, n_older) ==
    IF n_older > 0 THEN Rat(n_recent - n_older, Max(n_older, 1)) ELSE RInt(1)

\* series.mean() of an integer column, of a float column
Mean(s)  == Rat(SeqSum(s), Len(s))
RMean(s) == RMul(RSeqSum(s), Rat(1, Len(s)))

\* the metrics dict of one (food, days) pair
WindowMetrics(food, days, recent, older, now) ==
    LET Score(r)      == r.score
        Comments(r)   == r.num_comments
        Engagement(r) == r.engagement_score
        Weekend(r)    == r.is_weekend
        Ratio(r)      == r.upvote_ratio
    IN  [food              |-> food,
         window_days       |-> days,
         mention_count     |-> Len(recent),
         avg_score         |-> Mean(Column(recent, Score)),
         max_score         |-> SeqMax(Column(recent, Score)),
         avg_comments      |-> Mean(Column(recent, Comments)),
         avg_engagement    |-> RMean(Column(recent, Engagement)),
         unique_subreddits |-> Cardinality({recent[i].subreddit : i \in 1..Len(recent)}),
         weekend_ratio     |-> Mean(Column(recent, Weekend)),
         velocity          |-> Velocity(Len(recent), days),
         growth_rate       |-> GrowthRate(Len(recent), Len(older)),
         avg_upvote_ratio  |-> RMean(Column(recent, Ratio)),
         total_engagement  |-> RSeqSum(Column(recent, Engagement)),
         timestamp         |-> now]

\* the body of "for days in [7, 14, 30]" for one window length
WindowRecords(food, food_subset, days) ==
    LET now    == Now(food_subset)
        cutoff == now - days
        recent == Recent(food_subset, cutoff)
        older  == Older(food_subset, cutoff)
    IN  IF Len(recent) = 0 THEN <<>>
        ELSE <<WindowMetrics(food, days, recent, older, now)>>

\* Faulty variant of FoodRecords: the floor is off by one (4 mentions pass).
FoodRecords_FloorOffByOne(df, food) ==
    LET food_subset == FoodSubset(df, food)
    IN  IF Len(food_subset) < MinMentions - 1 THEN <<>>
        ELSE Concat([w \in 1..Len(Windows) |->
                        WindowRecords(food, food_subset, Windows[w])])

\* the body of "for food in food_df['food'].unique()" for one food
FoodRecords(df, food) ==
    LET food_subset == FoodSubset(df, food)
    IN  IF Len(food_subset) < MinMentions THEN <<>>
        ELSE Concat([w \in 1..Len(Windows) |->
                        WindowRecords(food, food_subset, Windows[w])])

aggregate_food_metrics(df) ==
    LET sorted == SortByCreated(df)
        FoodOf(r) == r.food
        foods  == Unique(Column(sorted, FoodOf))
    IN  Concat([k \in 1..Len(foods) |-> FoodRecords(sorted, foods[k])])

---------------------------------------------------------------------------
(* Trend Scorer & Labeler: FoodDataProcessor.create_trend_labels           *)

\* Faulty variant of CanonicalWindow: the records of every window are kept.
CanonicalWindow_AllWindows(df) == df

\* metrics_df[metrics_df['window_days'] == 7]
CanonicalWindow(df) ==
    LET IsWeek(r) == r.window_days = 7 IN SelectSeq(df, IsWeek)

\* Faulty variant of PctRank: ties take the highest rank of their group (method='max').
PctRank_MaxOfTies(col, i) ==
    LET less  == Cardinality({j \in DOMAIN col : RLt(col[j], col[i])})
        equal == Cardinality({j \in DOMAIN col : REq(col[j], col[i])})
    IN  Rat(less + equal, Len(col))

\* Faulty variant of PctRank: ranked in descending order (ascending=False).
PctRank_Descending(col, i) ==
    LET more  == Cardinality({j \in DOMAIN col : RLt(col[i], col[j])})
        equal == Cardinality({j \in DOMAIN col : REq(col[j], col[i])})
    IN  Rat(2 * more + equal + 1, 2 * Len(col))

\* series.rank(pct=True)[i]: the average of the ranks 1..n that the group of
\* values tied with col[i] occupies in ascending order, divided by n.
PctRank(col, i) ==
    LET less  == Cardinality({j \in DOMAIN col : RLt(col[j], col[i])})
        equal == Cardinality({j \in DOMAIN col : REq(col[j], col[i])})
    IN  Rat(2 * less + equal + 1, 2 * Len(col))

\* the weights of the combined trending score
VelocityWeight   == Rat(3, 10)
GrowthWeight     == Rat(4, 10)
EngagementWeight == Rat(3, 10)

\* Faulty variant of TrendingScore: the weights of velocity and growth are swapped.
TrendingScore_SwappedWeights(vp, gp, ep) ==
    RAdd(RAdd(RMul(vp, GrowthWeight), RMul(gp, VelocityWeight)),
         RMul(ep, EngagementWeight))

\* velocity_percentile * 0.3 + growth_percentile * 0.4 + engagement_percentile * 0.3
TrendingScore(vp, gp, ep) ==
    RAdd(RAdd(RMul(vp, VelocityWeight), RMul(gp, GrowthWeight)),
         RMul(ep, EngagementWeight))

\* ascending sort of a column of rationals
RECURSIVE RInsert(_, _)
RInsert(x, s) ==
    IF s = <<>> THEN <<x>>
    ELSE IF RLe(x, Head(s)) THEN <<x>> \o s
    ELSE <<Head(s)>> \o RInsert(x, Tail(s))

RECURSIVE RSort(_)
RSort(s) == IF s = <<>> THEN <<>> ELSE RInsert(Head(s), RSort(Tail(s)))

\* Faulty variant of Quantile: the lower neighbour is taken, without interpolation.
Quantile_Lower(col, q) ==
    LET sorted == RSort(col)
        pos    == RMul(q, RInt(Len(col) - 1))
    IN  sorted[(pos.n \div pos.d) + 1]

\* series.quantile(q): linear interpolation between the two sorted values
\* around position q * (n - 1), counted from 0.
Quantile(col, q) ==
    LET sorted == RSort(col)
        n      == Len(col)
        pos    == RMul(q, RInt(n - 1))
        lo     == pos.n \div pos.d
        frac   == RSub(pos, RInt(lo))
        hi     == IF lo + 1 <= n - 1 THEN lo + 1 ELSE lo
    IN  RAdd(sorted[lo + 1],
             RMul(RSub(sorted[hi + 1], sorted[lo + 1]), frac))

\* quantile(0.80)
TrendingQuantile == Rat(80, 100)

\* Faulty variant of IsTrending: a score equal to the threshold is not trending.
IsTrending_Strict(score, threshold) == IF RLt(threshold, score) THEN 1 ELSE 0

\* (trending_score >= threshold).astype(int)
IsTrending(score, threshold) == IF RLe(threshold, score) THEN 1 ELSE 0

create_trend_labels(df) ==
    LET week == CanonicalWindow(df)
        Vel(r) == r.velocity
        Gro(r) == r.growth_rate
        Eng(r) == r.avg_engagement
        vp == [i \in DOMAIN week |-> PctRank(Column(week, Vel), i)]
        gp == [i \in DOMAIN week |-> PctRank(Column(week, Gro), i)]
        ep == [i \in DOMAIN week |-> PctRank(Column(week, Eng), i)]
        score == [i \in DOMAIN week |-> TrendingScore(vp[i], gp[i], ep[i])]
        threshold == Quantile(score, TrendingQuantile)
    IN  [i \in DOMAIN week |->
            week[i] @@ [velocity_percentile   |-> vp[i],
                        growth_percentile     |-> gp[i],
                        engagement_percentile |-> ep[i],
                        trending_score        |-> score[i],
                        is_trending           |-> IsTrending(score[i], threshold)]]

---------------------------------------------------------------------------
(* The aggregation run: a mention stream is collected, then aggregated.    *)

\* The rows a mention stream is built from, in ascending creation day: the
\* stream is a multiset of these rows, listed in this order (process_pipeline
\* sorts the documents by created_utc before flattening them).  Several
\* documents may share a day and its signals.
MentionKinds ==
    Concat([d \in 1..Len(Documents) |->
        [f \in 1..Len(Foods) |-> MentionRecord(Foods[f], Documents[d])]])

KindIndex(m) == CHOOSE i \in 1..Len(MentionKinds) : MentionKinds[i] = m

\* StandardScaler(): a scaler that was never fitted; a fitted scaler is the
\* one-element sequence of its fit state
Unfitted == <<>>

\* The train_pipeline runs that may go on at the same time.
Runs == {1, 2}

\* before any run: nothing stored, nothing fetched, self.scaler a
\* StandardScaler() that was never fitted, nothing returned
EnvInit ==
    /\ store = [posts |-> <<>>, food_predictions |-> <<>>, reachable |-> TRUE]
    /\ posts_df = <<>>
    /\ scaler = Unfitted
    /\ result = [returned |-> "nothing"]
    /\ log = <<>>
    /\ train = [outcome |-> "none", records |-> <<>>, posts |-> <<>>]
    /\ disk = <<>>
    /\ service = <<>>
    /\ call = <<>>
    /\ text = <<>>
    /\ found_foods = <<>>
    /\ runs = [r \in Runs |-> [at |-> "start", records |-> <<>>]]
    /\ applied = <<>>
    /\ upload = [posts |-> <<>>, i |-> 0, batches |-> <<>>, returned |-> "nothing"]

Init ==
    /\ food_df = <<>>
    /\ metrics_df = <<>>
    /\ labels_df = <<>>
    /\ pc = "collect"
    /\ EnvInit

\* one more row of the mention stream
AddMention ==
    /\ pc = "collect"
    /\ Len(food_df) < MaxMentions
    /\ \E k \in 1..Len(MentionKinds) :
          /\ IF food_df = <<>> THEN TRUE
             ELSE KindIndex(food_df[Len(food_df)]) <= k
          /\ food_df' = Append(food_df, MentionKinds[k])
    /\ UNCHANGED <<metrics_df, labels_df, pc>>
    /\ UNCHANGED env

\* metrics_df = self.aggregate_food_metrics(food_df).  When no item
\* qualifies, metrics_df is a frame without columns and the closing
\* metrics_df['food'].nunique() raises KeyError; when food_df itself has no
\* row it has no column either and sort_values('created_utc') raises
\* KeyError.  Either way nothing is returned.
Aggregate ==
    /\ pc = "collect"
    /\ LET out == aggregate_food_metrics(food_df)
       IN  IF out = <<>>
           THEN /\ pc' = "KeyError"
                /\ metrics_df' = metrics_df
           ELSE /\ pc' = "aggregated"
                /\ metrics_df' = out
    /\ UNCHANGED <<food_df, labels_df>>
    /\ UNCHANGED env

\* metrics_df = self.create_trend_labels(metrics_df)
Label ==
    /\ pc = "aggregated"
    /\ labels_df' = create_trend_labels(metrics_df)
    /\ pc' = "labelled"
    /\ UNCHANGED <<food_df, metrics_df>>
    /\ UNCHANGED env

Next == AddMention \/ Aggregate \/ Label

Spec == Init /\ [][Next]_vars

---------------------------------------------------------------------------
(* The labelling run: a population of aggregated items is labelled.  Each  *)
(* item enters with the records the aggregator emits for its mentions      *)
(* (the records of an item depend on its own mentions only); items are     *)
(* named by their position in the population.                              *)

\* The mention histories an item of a population may have: `older` mentions
\* of the first document (day 0) and `recent` mentions of document `doc`.
ItemShapes ==
    << [older |-> 0, recent |-> 5, doc |-> 4],
       [older |-> 2, recent |-> 3, doc |-> 4],
       [older |-> 2, recent |-> 5, doc |-> 3],
       [older |-> 3, recent |-> 3, doc |-> 3],
       [older |-> 0, recent |-> 6, doc |-> 3],
       [older |-> 5, recent |-> 4, doc |-> 3] >>

\* The histories large populations are drawn from.
PopulationShapes == 1..3

\* Bound on the number of items of a population labelled in any row order.
MaxItems == 4

\* Bound on the number of items of a large population.
MaxPopulation == 21

ItemStream(food, shape) ==
    [i \in 1..shape.older  |-> MentionRecord(food, Documents[1])] \o
    [i \in 1..shape.recent |-> MentionRecord(food, Documents[shape.doc])]

\* the name of the item at position i of a population
ItemName(i) == ToString(i)

\* what aggregate_food_metrics emits for item i with history ItemShapes[k]
ItemRecords(i, k) ==
    FoodRecords(ItemStream(ItemName(i), ItemShapes[k]), ItemName(i))

\* the number of items of the population
Population == Len(CanonicalWindow(metrics_df))

\* the history of the item added last
LastShape ==
    LET n == Population
    IN  CHOOSE k \in 1..Len(ItemShapes) :
            LET records == ItemRecords(n, k)
            IN  metrics_df[Len(metrics_df)] = records[Len(records)]

InitLabel ==
    /\ food_df = <<>>
    /\ metrics_df = <<>>
    /\ labels_df = <<>>
    /\ pc = "population"
    /\ EnvInit

\* one more aggregated item, of any history
AddItem ==
    /\ pc \in {"population", "aggregated"}
    /\ Population < MaxItems
    /\ \E k \in 1..Len(ItemShapes) :
          metrics_df' = metrics_df \o ItemRecords(Population + 1, k)
    /\ pc' = "aggregated"
    /\ UNCHANGED <<food_df, labels_df>>
    /\ UNCHANGED env

NextLabel == AddItem \/ Label

SpecLabel == InitLabel /\ [][NextLabel]_vars

\* one more aggregated item of a large population; the items are listed in
\* the order of their histories (percentile ranks and the quantile do not
\* depend on the order of the rows)
AddPopulationItem ==
    /\ pc \in {"population", "aggregated"}
    /\ Population < MaxPopulation
    /\ \E k \in PopulationShapes :
          /\ IF metrics_df = <<>> THEN TRUE ELSE LastShape <= k
          /\ metrics_df' = metrics_df \o ItemRecords(Population + 1, k)
    /\ pc' = "aggregated"
    /\ UNCHANGED <<food_df, labels_df>>
    /\ UNCHANGED env

NextPopulation == AddPopulationItem \/ Label

SpecPopulation == InitLabel /\ [][NextPopulation]_vars

---------------------------------------------------------------------------
(* The pipeline run: FoodDataProcessor.process_pipeline over the posts of  *)
(* the document store.                                                     *)

\* process_pipeline(days_back=90, min_score=5)
DaysBack == 90
MinScore == 5

\* datetime.now() of the run, as a day number
Today == 41

\* The posts the store may hold, in ascending creation order.  food_mentions
\* is the list of foods the post mentions; null is the set of columns the
\* store holds no value for (a column named there is NULL, whatever the
\* record says).
PostKinds ==
    << [created_utc |-> 0 - 60, subreddit |-> "food", score |-> 10,
        num_comments |-> 2, upvote_ratio |-> Rat(9, 10),
        food_mentions |-> <<"ramen">>, null |-> {}],
       [created_utc |-> 0,  subreddit |-> "food",   score |-> 10,
        num_comments |-> 2, upvote_ratio |-> Rat(9, 10),
        food_mentions |-> <<"ramen">>, null |-> {}],
       [created_utc |-> 33, subreddit |-> "food",   score |-> 3,
        num_comments |-> 1, upvote_ratio |-> Rat(1, 2),
        food_mentions |-> <<"ramen">>, null |-> {}],
       [created_utc |-> 33, subreddit |-> "food",   score |-> 25,
        num_comments |-> 0, upvote_ratio |-> Rat(3, 4),
        food_mentions |-> <<"ramen">>, null |-> {}],
       [created_utc |-> 40, subreddit |-> "Baking", score |-> 7,
        num_comments |-> 9, upvote_ratio |-> Rat(1, 1),
        food_mentions |-> <<>>, null |-> {}],
       [created_utc |-> 40, subreddit |-> "Baking", score |-> 7,
        num_comments |-> 9, upvote_ratio |-> Rat(1, 1),
        food_mentions |-> <<"ramen", "sushi">>, null |-> {}] >>

\* Bound on the number of posts in the store.
MaxPosts == 6

\* .gte('created_utc', cutoff_date).gte('score', min_score): a comparison
\* with NULL selects nothing
Selected(post, cutoff_date, min_score) ==
    /\ "created_utc" \notin post.null
    /\ "score" \notin post.null
    /\ post.created_utc >= cutoff_date
    /\ post.score >= min_score

\* what the store answers to the query of fetch_data
Query(posts, days_back, min_score) ==
    LET Hit(post) == Selected(post, Today - days_back, min_score)
    IN  SelectSeq(posts, Hit)

\* Faulty variant of EmptyBatch: an empty batch is processed like any other.
EmptyBatch_Never(batch) == FALSE

\* df.empty
EmptyBatch(batch) == batch = <<>>

\* calculate_engagement_score and extract_temporal_features on one row; the
\* engagement score has no value (NaN) when one of its three signals has
\* none
EnrichRow(row) ==
    [row EXCEPT !.null =
        @ \cup (IF @ \cap {"score", "num_comments", "upvote_ratio"} # {}
                THEN {"engagement_score"} ELSE {})]
    @@ [engagement_score |-> calculate_engagement_score(row),
        is_weekend       |-> is_weekend(row.created_utc)]

\* Faulty variant of RowRecords: only the first food of the list yields a record.
RowRecords_FirstFoodOnly(row) ==
    IF "food_mentions" \in row.null \/ row.food_mentions = <<>> THEN <<>>
    ELSE <<MentionRecord(row.food_mentions[1], row)
           @@ [post_id |-> row.post_id, null |-> row.null]>>

\* the food_records of one row: none when food_mentions is missing or
\* empty, else one Mention Record per mentioned food, carrying the row's id
\* and whatever values the row has
RowRecords(row) ==
    IF "food_mentions" \in row.null \/ row.food_mentions = <<>> THEN <<>>
    ELSE [k \in 1..Len(row.food_mentions) |->
             MentionRecord(row.food_mentions[k], row)
             @@ [post_id |-> row.post_id, null |-> row.null]]

create_food_dataset(batch) ==
    Concat([i \in 1..Len(batch) |-> RowRecords(batch[i])])

\* feature_columns of prepare_features
FeatureColumns ==
    << "mention_count", "avg_score", "max_score", "avg_comments",
       "avg_engagement", "unique_subreddits", "weekend_ratio",
       "velocity", "growth_rate", "avg_upvote_ratio", "total_engagement" >>

\* the columns whose values are Python ints
IntColumns == {"mention_count", "max_score", "unique_subreddits"}

\* X = metrics_df[feature_columns].fillna(0): one row of 11 floats per
\* record, in the order of feature_columns; a missing value (a rational
\* without denominator) becomes 0
FeatureRow(record) ==
    [c \in 1..Len(FeatureColumns) |->
        LET v == record[FeatureColumns[c]]
        IN  IF FeatureColumns[c] \in IntColumns THEN RInt(v)
            ELSE IF v.d = 0 THEN RInt(0) ELSE v]

FeatureMatrix(records) == [i \in 1..Len(records) |-> FeatureRow(records[i])]

\* StandardScaler.fit: per column the mean and the (population) variance
Fit(X) ==
    LET Col(c)  == [i \in 1..Len(X) |-> X[i][c]]
        Dev2(c) == LET m == RMean(Col(c))
                   IN  [i \in 1..Len(X) |->
                           RMul(RSub(X[i][c], m), RSub(X[i][c], m))]
    IN  [mean_ |-> [c \in 1..Len(FeatureColumns) |-> RMean(Col(c))],
         var_  |-> [c \in 1..Len(FeatureColumns) |-> RMean(Dev2(c))]]

Sign(k) == IF k > 0 THEN 1 ELSE IF k < 0 THEN 0 - 1 ELSE 0

\* one scaled value (x - mean_) / sqrt(var_), the divisor being 1 for a
\* constant column; the value is kept exactly as its sign and its square
Scaled(x, mean, var) ==
    LET dev == RSub(x, mean)
    IN  [sign   |-> Sign(dev.n),
         square |-> IF var.n = 0 THEN RMul(dev, dev)
                    ELSE RMul(RMul(dev, dev), Rat(var.d, var.n))]

\* StandardScaler.transform with a fitted scaler
Transform(fit, X) ==
    [i \in 1..Len(X) |->
        [c \in 1..Len(FeatureColumns) |->
            Scaled(X[i][c], fit.mean_[c], fit.var_[c])]]

\* Faulty variant of fit_transform: a scaler that is already fitted keeps its fit.
fit_transform_KeepFit(prior, X) ==
    LET fit == IF prior = <<>> THEN Fit(X) ELSE prior[1]
    IN  [fit |-> fit, X_scaled |-> Transform(fit, X)]

\* self.scaler.fit_transform(X) on a scaler in state `prior` (Unfitted or
\* <<fit>>): the scaler is fitted anew on X, then X is transformed
fit_transform(prior, X) ==
    LET fit == Fit(X)
    IN  [fit |-> fit, X_scaled |-> Transform(fit, X)]

\* prepare_features(metrics_df) of a processor whose scaler is in state
\* `prior`: what it returns and the scaler it leaves
prepare_features(prior, labelled) ==
    LET X      == FeatureMatrix(labelled)
        y      == [i \in 1..Len(labelled) |-> labelled[i].is_trending]
        scaled == fit_transform(prior, X)
    IN  [scaler |-> <<scaled.fit>>,
         X_scaled_df |-> scaled.X_scaled,
         y |-> y,
         feature_columns |-> FeatureColumns]

\* return None, None, None, None
NoneResult == [returned |-> "None", value |-> <<"None", "None", "None", "None">>]

InitPipeline ==
    /\ food_df = <<>>
    /\ metrics_df = <<>>
    /\ labels_df = <<>>
    /\ pc = "store"
    /\ EnvInit

\* one more post in the store's table, the posts listed in creation order;
\* the id of a post is its position
StorePost ==
    /\ pc = "store"
    /\ Len(store.posts) < MaxPosts
    /\ \E k \in 1..Len(PostKinds) :
          /\ IF store.posts = <<>> THEN TRUE
             ELSE \E j \in 1..k :
                     PostKinds[j] @@ [post_id |-> Len(store.posts)]
                        = store.posts[Len(store.posts)]
          /\ store' = [store EXCEPT !.posts =
                          Append(@, PostKinds[k] @@ [post_id |-> Len(@) + 1])]
    /\ UNCHANGED <<food_df, metrics_df, labels_df, pc, posts_df, scaler, result, log>>
    /\ UNCHANGED served

\* the store stops answering
Outage ==
    /\ pc = "store"
    /\ store.reachable
    /\ store' = [store EXCEPT !.reachable = FALSE]
    /\ UNCHANGED <<food_df, metrics_df, labels_df, pc, posts_df, scaler, result, log>>
    /\ UNCHANGED served

\* df = self.fetch_data(days_back, min_score); if df.empty: return None
\* four times.  fetch_data catches whatever the query raises, prints it and
\* returns an empty frame.
Fetch ==
    /\ pc = "store"
    /\ LET batch == IF store.reachable
                    THEN Query(store.posts, DaysBack, MinScore) ELSE <<>>
       IN  /\ posts_df' = batch
           /\ log' = log
                     \o (IF store.reachable THEN <<>>
                         ELSE <<"Error fetching data">>)
                     \o (IF EmptyBatch(batch) THEN <<"No data to process">>
                         ELSE <<>>)
           /\ IF EmptyBatch(batch)
              THEN /\ pc' = "returned"
                   /\ result' = NoneResult
              ELSE /\ pc' = "fetched"
                   /\ result' = result
    /\ UNCHANGED <<food_df, metrics_df, labels_df, store, scaler>>
    /\ UNCHANGED served

\* calculate_engagement_score, extract_temporal_features, calculate_velocity
Enrich ==
    /\ pc = "fetched"
    /\ posts_df' = SortByCreated([i \in 1..Len(posts_df) |-> EnrichRow(posts_df[i])])
    /\ pc' = "enriched"
    /\ UNCHANGED <<food_df, metrics_df, labels_df, store, scaler, result, log>>
    /\ UNCHANGED served

\* food_df = self.create_food_dataset(df)
CreateFoodDataset ==
    /\ pc = "enriched"
    /\ food_df' = create_food_dataset(posts_df)
    /\ pc' = "collect"
    /\ UNCHANGED <<metrics_df, labels_df, store, posts_df, scaler, result, log>>
    /\ UNCHANGED served

\* X, y, feature_columns = self.prepare_features(metrics_df) and the return
PrepareFeatures ==
    /\ pc = "labelled"
    /\ \E out \in {prepare_features(scaler, labels_df)} :
           /\ scaler' = out.scaler
           /\ result' = [returned |-> "value",
                         value |-> [X |-> out.X_scaled_df,
                                    y |-> out.y,
                                    feature_columns |-> out.feature_columns,
                                    metrics_df |-> labels_df]]
    /\ pc' = "returned"
    /\ UNCHANGED <<food_df, metrics_df, labels_df, store, posts_df, log>>
    /\ UNCHANGED served

NextPipeline ==
    \/ StorePost \/ Outage \/ Fetch \/ Enrich \/ CreateFoodDataset
    \/ Aggregate \/ Label \/ PrepareFeatures

SpecPipeline == InitPipeline /\ [][NextPipeline]_vars

---------------------------------------------------------------------------
(* Repeated preparation: one processor prepares labelled batches one after *)
(* the other, the same batch again or another one; a fresh processor may   *)
(* take its place at any call.                                             *)

\* The histories the items of a prepared batch are drawn from.
BatchShapes == {1, 3, 6}

\* Bound on the number of items of a prepared batch.
MaxBatchItems == 2

\* one more item of the batch to label
AddBatchItem ==
    /\ pc \in {"population", "aggregated"}
    /\ Population < MaxBatchItems
    /\ \E k \in BatchShapes :
          metrics_df' = metrics_df \o ItemRecords(Population + 1, k)
    /\ pc' = "aggregated"
    /\ UNCHANGED <<food_df, labels_df>>
    /\ UNCHANGED env

\* the caller holds on to the labelled batch and calls prepare_features again
PrepareAgain ==
    /\ pc = "returned"
    /\ pc' = "labelled"
    /\ UNCHANGED <<food_df, metrics_df, labels_df>>
    /\ UNCHANGED env

\* the caller turns to another batch; what the last call returned is dropped
NextBatch ==
    /\ pc = "returned"
    /\ metrics_df' = <<>>
    /\ labels_df' = <<>>
    /\ result' = [returned |-> "nothing"]
    /\ pc' = "population"
    /\ UNCHANGED <<food_df, store, posts_df, scaler, log>>
    /\ UNCHANGED served

\* processor = FoodDataProcessor(): self.scaler = StandardScaler()
FreshProcessor ==
    /\ pc = "labelled"
    /\ scaler # Unfitted
    /\ scaler' = Unfitted
    /\ UNCHANGED <<food_df, metrics_df, labels_df, pc, store, posts_df,
                   result, log>>
    /\ UNCHANGED served

NextPrepare ==
    \/ AddBatchItem \/ Label \/ PrepareFeatures
    \/ PrepareAgain \/ NextBatch \/ FreshProcessor

SpecPrepare == InitLabel /\ [][NextPrepare]_vars

---------------------------------------------------------------------------
(* The dataset run: the stages of process_pipeline up to the mention       *)
(* stream, over posts that may lack a value for a column.                  *)

\* the columns a post is required to have a value for
RequiredFields ==
    {"score", "num_comments", "upvote_ratio", "created_utc", "post_id",
     "subreddit"}

\* The posts a store with incomplete rows may hold: a complete post, and
\* the same post with one of the required columns NULL.
IncompletePostKinds ==
    << [created_utc |-> 33, subreddit |-> "food",   score |-> 25,
        num_comments |-> 0, upvote_ratio |-> Rat(3, 4),
        food_mentions |-> <<"ramen">>, null |-> {}],
       [created_utc |-> 40, subreddit |-> "Baking", score |-> 7,
        num_comments |-> 9, upvote_ratio |-> Rat(1, 1),
        food_mentions |-> <<"ramen", "sushi">>, null |-> {}],
       [created_utc |-> 40, subreddit |-> "Baking", score |-> 7,
        num_comments |-> 9, upvote_ratio |-> Rat(1, 1),
        food_mentions |-> <<"ramen", "sushi">>, null |-> {"score"}],
       [created_utc |-> 40, subreddit |-> "Baking", score |-> 7,
        num_comments |-> 9, upvote_ratio |-> Rat(1, 1),
        food_mentions |-> <<"ramen", "sushi">>, null |-> {"num_comments"}],
       [created_utc |-> 40, subreddit |-> "Baking", score |-> 7,
        num_comments |-> 9, upvote_ratio |-> Rat(1, 1),
        food_mentions |-> <<"ramen", "sushi">>, null |-> {"upvote_ratio"}],
       [created_utc |-> 40, subreddit |-> "Baking", score |-> 7,
        num_comments |-> 9, upvote_ratio |-> Rat(1, 1),
        food_mentions |-> <<"ramen", "sushi">>, null |-> {"created_utc"}],
       [created_utc |-> 40, subreddit |-> "Baking", score |-> 7,
        num_comments |-> 9, upvote_ratio |-> Rat(1, 1),
        food_mentions |-> <<"ramen", "sushi">>, null |-> {"post_id"}],
       [created_utc |-> 40, subreddit |-> "Baking", score |-> 7,
        num_comments |-> 9, upvote_ratio |-> Rat(1, 1),
        food_mentions |-> <<"ramen", "sushi">>, null |-> {"subreddit"}] >>

\* one more post, complete or not, in the store's table
StoreAnyPost ==
    /\ pc = "store"
    /\ Len(store.posts) < MaxPosts
    /\ \E k \in 1..Len(IncompletePostKinds) :
          /\ IF store.posts = <<>> THEN TRUE
             ELSE \E j \in 1..k :
                     IncompletePostKinds[j] @@ [post_id |-> Len(store.posts)]
                        = store.posts[Len(store.posts)]
          /\ store' = [store EXCEPT !.posts =
                          Append(@, IncompletePostKinds[k]
                                    @@ [post_id |-> Len(@) + 1])]
    /\ UNCHANGED <<food_df, metrics_df, labels_df, pc, posts_df, scaler, result, log>>
    /\ UNCHANGED served

NextDataset == StoreAnyPost \/ Fetch \/ Enrich \/ CreateFoodDataset

SpecDataset == InitPipeline /\ [][NextDataset]_vars

---------------------------------------------------------------------------
(* Training and serving: train_pipeline (src/model.py) and                 *)
(* TrendPredictionService (src/predict_service.py).                        *)
(*                                                                         *)
(* The classifier is opaque: a fitted classifier is named by what it was   *)
(* fitted on, a prediction by the classifier and the row it was asked      *)
(* about.  Every random_state of the training is fixed, so the same        *)
(* training data give the same classifier.  The text of a post is named by *)
(* the post's id.                                                          *)

\* process_pipeline as one call: the stages of the pipeline run in order;
\* what it returns (or that it raised), and the scaler it leaves fitted
process_pipeline(posts, reachable) ==
    LET batch == IF reachable THEN Query(posts, DaysBack, MinScore) ELSE <<>>
    IN  IF EmptyBatch(batch) THEN NoneResult
        ELSE
          LET enriched == SortByCreated([i \in 1..Len(batch) |-> EnrichRow(batch[i])])
              metrics  == aggregate_food_metrics(create_food_dataset(enriched))
          IN  IF metrics = <<>> THEN [returned |-> "KeyError"]
              ELSE
                LET labelled == create_trend_labels(metrics)
                    X   == FeatureMatrix(labelled)
                    fit == Fit(X)
                IN  [returned |-> "value",
                     scaler |-> <<fit>>,
                     value  |-> [X |-> Transform(fit, X),
                                 y |-> [i \in 1..Len(labelled) |->
                                           labelled[i].is_trending],
                                 feature_columns |-> FeatureColumns,
                                 metrics_df |-> labelled]]

\* the text train_pipeline takes for a food: that of the first post of the
\* table that mentions it, the food's name when there is none
FoodText(posts, food) ==
    LET Mentions(post) == \E k \in 1..Len(post.food_mentions) :
                              post.food_mentions[k] = food
        hits == SelectSeq(posts, Mentions)
    IN  IF hits = <<>> THEN food ELSE hits[1].post_id

\* predictor.train(X, food_texts, y): the fitted classifier
Trained(X, texts, y) == [X |-> X, texts |-> texts, y |-> y]

\* predictor.predict on one row: the label and the probability the fitted
\* classifier gives it
Predict(xgb_model, x, text_sample) ==
    [predicted_trending |-> <<"predict", xgb_model, x, text_sample>>,
     trend_probability  |-> <<"predict_proba", xgb_model, x, text_sample>>]

\* Faulty variant of PredictionRecords: only the items labelled trending are emitted.
PredictionRecords_TrendingOnly(labelled, predicted) ==
    LET Keep(r) == r.is_trending = 1
    IN  SelectSeq([i \in 1..Len(labelled) |->
                    [food               |-> labelled[i].food,
                     trending_score     |-> labelled[i].trending_score,
                     is_trending        |-> labelled[i].is_trending,
                     predicted_trending |-> predicted[i].predicted_trending,
                     trend_probability  |-> predicted[i].trend_probability,
                     velocity           |-> labelled[i].velocity,
                     growth_rate        |-> labelled[i].growth_rate]], Keep)

\* prediction_records: the seven columns of every labelled row
PredictionRecords(labelled, predicted) ==
    [i \in 1..Len(labelled) |->
        [food               |-> labelled[i].food,
         trending_score     |-> labelled[i].trending_score,
         is_trending        |-> labelled[i].is_trending,
         predicted_trending |-> predicted[i].predicted_trending,
         trend_probability  |-> predicted[i].trend_probability,
         velocity           |-> labelled[i].velocity,
         growth_rate        |-> labelled[i].growth_rate]]

\* Faulty variant of Upsert: the row an item already has is kept, only new items are added.
Upsert_KeepExisting(table, records) ==
    LET Absent(r) == \A i \in 1..Len(table) : table[i].food # r.food
    IN  table \o SelectSeq(records, Absent)

\* table.upsert(records): the table is keyed by item; a record replaces the
\* row of its item where there is one and is added where there is none
RECURSIVE Upsert(_, _)
Upsert(table, records) ==
    IF records = <<>> THEN table
    ELSE LET r == Head(records)
             merged ==
                 IF \E i \in 1..Len(table) : table[i].food = r.food
                 THEN [i \in 1..Len(table) |->
                          IF table[i].food = r.food THEN r ELSE table[i]]
                 ELSE Append(table, r)
         IN  Upsert(merged, Tail(records))

\* The posts the store of a training deployment may hold.
TrainingKinds == {2, 4, 6}

\* one more post in the store between two runs
StoreRecentPost ==
    /\ pc = "store"
    /\ Len(store.posts) < MaxPosts
    /\ \E k \in TrainingKinds :
          /\ IF store.posts = <<>> THEN TRUE
             ELSE \E j \in 1..k :
                     PostKinds[j] @@ [post_id |-> Len(store.posts)]
                        = store.posts[Len(store.posts)]
          /\ store' = [store EXCEPT !.posts =
                          Append(@, PostKinds[k] @@ [post_id |-> Len(@) + 1])]
    /\ UNCHANGED <<food_df, metrics_df, labels_df, pc, posts_df, scaler, result, log>>
    /\ UNCHANGED served

\* train_pipeline(), run to its end.  predictor.train raises for some
\* batches (a class too small to stratify the split, say), and the store
\* may refuse the upsert, which is caught and printed: both are left open.
TrainRun ==
    /\ pc = "store"
    /\ \E out \in {process_pipeline(store.posts, store.reachable)} :
           IF out.returned = "KeyError"
           THEN /\ train' = [outcome |-> "raised", records |-> <<>>,
                                 posts |-> store.posts]
                /\ UNCHANGED <<store, scaler, disk>>
           ELSE IF out.returned = "None"
           THEN /\ train' = [outcome |-> "no_data", records |-> <<>>,
                                 posts |-> store.posts]
                /\ UNCHANGED <<store, scaler, disk>>
           ELSE
             LET labelled == out.value.metrics_df
                 texts == [i \in 1..Len(labelled) |->
                              FoodText(store.posts, labelled[i].food)]
                 xgb_model == Trained(out.value.X, texts, out.value.y)
                 predicted == [i \in 1..Len(labelled) |->
                                  Predict(xgb_model, out.value.X[i], texts[i])]
                 records == PredictionRecords(labelled, predicted)
             IN  /\ scaler' = out.scaler
                 /\ \E fitted \in BOOLEAN, stored \in BOOLEAN :
                       IF ~fitted
                       THEN /\ train' = [outcome |-> "raised", records |-> <<>>,
                                 posts |-> store.posts]
                            /\ UNCHANGED <<store, disk>>
                       ELSE /\ disk' = <<xgb_model>>
                            /\ IF stored
                               THEN /\ store' = [store EXCEPT !.food_predictions =
                                                    Upsert(@, records)]
                                    /\ train' = [outcome |-> "stored",
                                                 records |-> records,
                                                 posts   |-> store.posts]
                               ELSE /\ store' = store
                                    /\ train' = [outcome |-> "not_stored",
                                                 records |-> records,
                                                 posts   |-> store.posts]
    /\ UNCHANGED <<food_df, metrics_df, labels_df, pc, posts_df, result, log,
                   service, call, text, found_foods,
                   runs, applied, upload>>

NextTrain == StoreRecentPost \/ TrainRun

SpecTrain == InitPipeline /\ [][NextTrain]_vars

---------------------------------------------------------------------------
(* Concurrent training: two train_pipeline processes run against the same  *)
(* store while posts arrive.  A run reads the store when it processes the  *)
(* posts and trains, and writes it with the one upsert call at its end;    *)
(* the store applies an upsert call as a whole.                            *)

\* The posts that arrive while the runs go on.
ConcurrentKinds == {4, 6}

\* one more post in the store
StorePostMeanwhile ==
    /\ pc = "store"
    /\ Len(store.posts) < MaxPosts
    /\ \E k \in ConcurrentKinds :
          /\ IF store.posts = <<>> THEN TRUE
             ELSE \E j \in 1..k :
                     PostKinds[j] @@ [post_id |-> Len(store.posts)]
                        = store.posts[Len(store.posts)]
          /\ store' = [store EXCEPT !.posts =
                          Append(@, PostKinds[k] @@ [post_id |-> Len(@) + 1])]
    /\ UNCHANGED <<food_df, metrics_df, labels_df, pc, posts_df, scaler, result, log>>
    /\ UNCHANGED served

\* train_pipeline() of run r up to prediction_records: the posts are
\* processed, the classifier is trained, pickled and asked for predictions
RunTrain(r) ==
    /\ pc = "store"
    /\ runs[r].at = "start"
    /\ \E out \in {process_pipeline(store.posts, store.reachable)} :
           IF out.returned = "KeyError"
           THEN /\ runs' = [runs EXCEPT ![r].at = "raised"]
                /\ disk' = disk
           ELSE IF out.returned = "None"
           THEN /\ runs' = [runs EXCEPT ![r].at = "no_data"]
                /\ disk' = disk
           ELSE
             LET labelled == out.value.metrics_df
                 texts == [i \in 1..Len(labelled) |->
                              FoodText(store.posts, labelled[i].food)]
                 xgb_model == Trained(out.value.X, texts, out.value.y)
                 predicted == [i \in 1..Len(labelled) |->
                                  Predict(xgb_model, out.value.X[i], texts[i])]
                 records == PredictionRecords(labelled, predicted)
             IN  \E fitted \in BOOLEAN :
                    IF ~fitted
                    THEN /\ runs' = [runs EXCEPT ![r].at = "raised"]
                         /\ disk' = disk
                    ELSE /\ runs' = [runs EXCEPT ![r] =
                                        [at |-> "upsert", records |-> records]]
                         /\ disk' = <<xgb_model>>
    /\ UNCHANGED <<food_df, metrics_df, labels_df, pc, store, posts_df, scaler,
                   result, log, train, service, call, text, found_foods,
                   applied, upload>>

\* supabase.table('food_predictions').upsert(prediction_records).execute()
\* of run r, inside its try: the store applies the call or refuses it
RunUpsert(r) ==
    /\ runs[r].at = "upsert"
    /\ \E stored \in BOOLEAN :
          IF stored
          THEN /\ store' = [store EXCEPT !.food_predictions =
                               Upsert(@, runs[r].records)]
               /\ applied' = Append(applied, r)
               /\ runs' = [runs EXCEPT ![r].at = "stored"]
          ELSE /\ UNCHANGED <<store, applied>>
               /\ runs' = [runs EXCEPT ![r].at = "not_stored"]
    /\ UNCHANGED <<food_df, metrics_df, labels_df, pc, posts_df, scaler,
                   result, log, train, disk, service, call, text, found_foods,
                   upload>>

NextConcurrent ==
    \/ StorePostMeanwhile
    \/ \E r \in Runs : RunTrain(r)
    \/ \E r \in Runs : RunUpsert(r)

SpecConcurrent == InitPipeline /\ [][NextConcurrent]_vars

\* The names predict_new_food is asked about, and the windows.
FoodNames == {"ramen", "Sushi", "pho"}
DaysBackChoices == {7, 30}

\* food_name.lower()
Lower(name) == IF name = "Sushi" THEN "sushi" ELSE name

\* .contains('food_mentions', [food]).gte('created_utc', cutoff_date)
PostsMentioning(posts, food, days_back) ==
    LET Hit(post) ==
            /\ "food_mentions" \notin post.null
            /\ \E k \in 1..Len(post.food_mentions) : post.food_mentions[k] = food
            /\ "created_utc" \notin post.null
            /\ post.created_utc >= Today - days_back
    IN  SelectSeq(posts, Hit)

\* Faulty variant of NewFoodMetrics: the velocity is taken per canonical
\* 7-day window and the two placeholders are exchanged.
NewFoodMetrics_WeekVelocity(data, days_back) ==
    LET Score(r)    == r.score
        Comments(r) == r.num_comments
        Ratio(r)    == r.upvote_ratio
        Engaged(r)  == r.score + r.num_comments * 2
    IN  << [name |-> "mention_count",     value |-> RInt(Len(data))],
           [name |-> "avg_score",         value |-> Mean(Column(data, Score))],
           [name |-> "max_score",         value |-> RInt(SeqMax(Column(data, Score)))],
           [name |-> "avg_comments",      value |-> Mean(Column(data, Comments))],
           [name |-> "avg_engagement",    value |-> Mean(Column(data, Engaged))],
           [name |-> "unique_subreddits",
            value |-> RInt(Cardinality({data[i].subreddit : i \in 1..Len(data)}))],
           [name |-> "weekend_ratio",     value |-> Rat(1, 10)],
           [name |-> "velocity",          value |-> Rat(Len(data), 7)],
           [name |-> "growth_rate",       value |-> Rat(1, 2)],
           [name |-> "avg_upvote_ratio",  value |-> RMean(Column(data, Ratio))],
           [name |-> "total_engagement",
            value |-> RInt(SeqSum(Column(data, Score))
                           + SeqSum(Column(data, Comments)) * 2)] >>

\* the metrics dict of predict_new_food, its keys in the order written
NewFoodMetrics(data, days_back) ==
    LET Score(r)    == r.score
        Comments(r) == r.num_comments
        Ratio(r)    == r.upvote_ratio
        Engaged(r)  == r.score + r.num_comments * 2
    IN  << [name |-> "mention_count",     value |-> RInt(Len(data))],
           [name |-> "avg_score",         value |-> Mean(Column(data, Score))],
           [name |-> "max_score",         value |-> RInt(SeqMax(Column(data, Score)))],
           [name |-> "avg_comments",      value |-> Mean(Column(data, Comments))],
           [name |-> "avg_engagement",    value |-> Mean(Column(data, Engaged))],
           [name |-> "unique_subreddits",
            value |-> RInt(Cardinality({data[i].subreddit : i \in 1..Len(data)}))],
           [name |-> "weekend_ratio",     value |-> Rat(5, 10)],
           [name |-> "velocity",          value |-> Rat(Len(data), days_back)],
           [name |-> "growth_rate",       value |-> Rat(1, 10)],
           [name |-> "avg_upvote_ratio",  value |-> RMean(Column(data, Ratio))],
           [name |-> "total_engagement",
            value |-> RInt(SeqSum(Column(data, Score))
                           + SeqSum(Column(data, Comments)) * 2)] >>

\* Faulty variant of ErrorResponse: the exception leaves predict_new_food.
ErrorResponse_Reraise(food_name, e) ==
    [food |-> food_name, status |-> "raised", message |-> e]

\* except Exception as e: the record returned for an exception named e
ErrorResponse(food_name, e) ==
    [food |-> food_name, status |-> "error", message |-> e]

\* TrendPredictionService(): a new predictor, a new processor with its own
\* scaler, and the pickled classifier when the file exists
StartService ==
    /\ pc = "store"
    /\ service' = <<[scaler |-> Unfitted, xgb_model |-> disk]>>
    /\ UNCHANGED <<food_df, metrics_df, labels_df, pc, store, posts_df, scaler,
                   result, log, train, disk, call, text, found_foods,
                   runs, applied, upload>>

\* predict_new_food(food_name, days_back): whatever is raised on the way is
\* caught and answered with status 'error'
PredictNewFood ==
    /\ pc = "store"
    /\ service # <<>>
    /\ \E food_name \in FoodNames, days_back \in DaysBackChoices :
        \E data \in {PostsMentioning(store.posts, Lower(food_name), days_back)} :
          IF ~store.reachable
          THEN call' = <<[food_name |-> food_name, days_back |-> days_back,
                          metrics |-> <<>>,
                          response |-> ErrorResponse(food_name, "store")]>>
          ELSE IF data = <<>>
          THEN call' = <<[food_name |-> food_name, days_back |-> days_back,
                          metrics |-> <<>>,
                          response |-> [food |-> food_name, status |-> "no_data"]]>>
          ELSE
            \E metrics \in {NewFoodMetrics(data, days_back)} :
              LET X == <<[c \in 1..Len(metrics) |-> metrics[c].value]>>
              IN  IF service[1].scaler = Unfitted
                  THEN call' = <<[food_name |-> food_name, days_back |-> days_back,
                                  metrics |-> metrics,
                                  response |->
                                      ErrorResponse(food_name, "NotFittedError")]>>
                  ELSE IF service[1].xgb_model = <<>>
                  THEN call' = <<[food_name |-> food_name, days_back |-> days_back,
                                  metrics |-> metrics,
                                  response |->
                                      ErrorResponse(food_name, "ValueError")]>>
                  ELSE call' = <<[food_name |-> food_name, days_back |-> days_back,
                                  metrics |-> metrics,
                                  response |->
                                      [food |-> food_name,
                                       status |-> "success",
                                       prediction |->
                                           Predict(service[1].xgb_model[1],
                                                   Transform(service[1].scaler[1], X)[1],
                                                   data[1].post_id),
                                       metrics |-> metrics]]>>
    /\ UNCHANGED <<food_df, metrics_df, labels_df, pc, store, posts_df, scaler,
                   result, log, train, disk, service, text, found_foods,
                   runs, applied, upload>>

NextService == StoreRecentPost \/ TrainRun \/ StartService \/ PredictNewFood

SpecService == InitPipeline /\ [][NextService]_vars

\* The service in front of a store that may stop answering.
NextOutage ==
    StorePostMeanwhile \/ Outage \/ TrainRun \/ StartService \/ PredictNewFood

SpecOutage == InitPipeline /\ [][NextOutage]_vars

---------------------------------------------------------------------------
(* Extraction of mentions: extract_food_mentions (src/etl.py).  A text is  *)
(* a sequence of characters.                                               *)

\* The characters texts are written with.
Alphabet == {"p", "i", "e", "g", "P", "E"}

\* Bound on the length of a text.
MaxTextLen == 5

\* str.lower() on one character of the alphabet
LowerChar(c) ==
    CASE c = "P" -> "p"
      [] c = "E" -> "e"
      [] OTHER   -> c

\* text.lower()
LowerText(t) == [i \in 1..Len(t) |-> LowerChar(t[i])]

\* food_keywords, in the order of the list: the keywords that can be written
\* with the letters of the alphabet (no other keyword occurs in a text
\* written with it)
food_keywords ==
    << [food |-> "pie", chars |-> <<"p", "i", "e">>],
       [food |-> "egg", chars |-> <<"e", "g", "g">>] >>

\* sub is the beginning of s
StartsWith(s, sub) ==
    /\ Len(sub) <= Len(s)
    /\ SubSeq(s, 1, Len(sub)) = sub

\* Faulty variant of Contains: the keyword is looked for at the beginning of the text only.
Contains_AtStart(s, sub) == StartsWith(s, sub)

\* sub in s: sub begins s, or occurs in s without its first character
RECURSIVE Contains(_, _)
Contains(s, sub) ==
    IF Len(s) < Len(sub) THEN FALSE
    ELSE StartsWith(s, sub) \/ Contains(Tail(s), sub)

\* [food for food in food_keywords if food in text_lower]
FoundFoods(t) ==
    LET Found(kw) == Contains(LowerText(t), kw.chars)
        Name(kw)  == kw.food
    IN  Column(SelectSeq(food_keywords, Found), Name)

\* the orders list(set(found)) may give the elements of found
Orders(found) ==
    LET elements == {found[i] : i \in 1..Len(found)}
        n == Cardinality(elements)
    IN  {order \in [1..n -> elements] :
            \A i, j \in 1..n : order[i] = order[j] => i = j}

InitExtract ==
    /\ food_df = <<>>
    /\ metrics_df = <<>>
    /\ labels_df = <<>>
    /\ pc = "text"
    /\ EnvInit

\* one more character of the text
TypeChar ==
    /\ pc = "text"
    /\ Len(text) < MaxTextLen
    /\ \E c \in Alphabet : text' = Append(text, c)
    /\ UNCHANGED <<food_df, metrics_df, labels_df, pc, store, posts_df, scaler,
                   result, log, train, disk, service, call, found_foods,
                   runs, applied, upload>>

\* extract_food_mentions(text)
ExtractFoodMentions ==
    /\ pc = "text"
    /\ \E order \in Orders(FoundFoods(text)) : found_foods' = order
    /\ pc' = "extracted"
    /\ UNCHANGED <<food_df, metrics_df, labels_df, store, posts_df, scaler,
                   result, log, train, disk, service, call, text, runs,
                   applied, upload>>

NextExtract == TypeChar \/ ExtractFoodMentions

SpecExtract == InitExtract /\ [][NextExtract]_vars

---------------------------------------------------------------------------
(* The upload: store_posts_in_supabase hands a list of posts to the store, *)
(* one upsert call per batch.  A post is named by its place in the list.   *)

\* batch_size = 100
batch_size == 100

\* Bound on the number of posts handed to one call.
MaxUpload == 250

Min(a, b) == IF a <= b THEN a ELSE b

\* utils.batch_process(items, batch_size): the batches it yields, in order
batch_process(items, size) ==
    [k \in 1..((Len(items) + size - 1) \div size) |->
        SubSeq(items, (k - 1) * size + 1, Min(k * size, Len(items)))]

\* Faulty variant of Batch: the slice takes one post of the next batch along.
Batch_Inclusive(items, i) ==
    SubSeq(items, i + 1, Min(i + batch_size + 1, Len(items)))

\* batch = posts[i:i + batch_size], i counting from 0
Batch(items, i) == SubSeq(items, i + 1, Min(i + batch_size, Len(items)))

\* the store applies an upsert call as a whole: the batch is committed
Commit(batches, batch) == Append(batches, batch)

InitUpload ==
    /\ food_df = <<>>
    /\ metrics_df = <<>>
    /\ labels_df = <<>>
    /\ pc = "upload"
    /\ EnvInit

\* store_posts_in_supabase(posts) is called: i = 0
StartUpload ==
    /\ pc = "upload"
    /\ upload.returned = "nothing"
    /\ \E n \in 0..MaxUpload :
          upload' = [posts |-> [k \in 1..n |-> k], i |-> 0, batches |-> <<>>,
                     returned |-> "running"]
    /\ UNCHANGED <<food_df, metrics_df, labels_df, pc, store, posts_df, scaler,
                   result, log, train, disk, service, call, text, found_foods,
                   runs, applied>>

\* one turn of the loop: the upsert of the batch at i goes through, or it
\* raises and the except clause returns False
UpsertBatch ==
    /\ upload.returned = "running"
    /\ upload.i < Len(upload.posts)
    /\ \E ok \in BOOLEAN :
          IF ok
          THEN /\ upload' = [upload EXCEPT
                                !.batches = Commit(@, Batch(upload.posts, upload.i)),
                                !.i = @ + batch_size]
               /\ log' = log
          ELSE /\ upload' = [upload EXCEPT !.returned = "False"]
               /\ log' = Append(log, "Error storing posts in Supabase")
    /\ UNCHANGED <<food_df, metrics_df, labels_df, pc, store, posts_df, scaler,
                   result, train, disk, service, call, text, found_foods,
                   runs, applied>>

\* the loop is over: return True
ReturnTrue ==
    /\ upload.returned = "running"
    /\ upload.i >= Len(upload.posts)
    /\ upload' = [upload EXCEPT !.returned = "True"]
    /\ UNCHANGED <<food_df, metrics_df, labels_df, pc, store, posts_df, scaler,
                   result, log, train, disk, service, call, text, found_foods,
                   runs, applied>>

NextUpload == StartUpload \/ UpsertBatch \/ ReturnTrue

SpecUpload == InitUpload /\ [][NextUpload]_vars

---------------------------------------------------------------------------
(* What the aggregation claims speak of, read off the mention stream       *)
(* itself (by row index), independently of the aggregator's own steps.     *)

FoodSet   == {Foods[i] : i \in 1..Len(Foods)}
WindowSet == {Windows[i] : i \in 1..Len(Windows)}

\* the rows of the stream that mention food f
MentionsOf(f) == {i \in DOMAIN food_df : food_df[i].food = f}

\* the latest creation day among f's own mentions
OwnLatest(f) ==
    CHOOSE t \in {food_df[i].created_utc : i \in MentionsOf(f)} :
        \A i \in MentionsOf(f) : food_df[i].created_utc <= t

\* f's mentions inside, and before, the window of W days ending at f's
\* own latest mention
InsideWindow(f, W) ==
    {i \in MentionsOf(f) : food_df[i].created_utc >= OwnLatest(f) - W}
BeforeWindow(f, W) ==
    {i \in MentionsOf(f) : food_df[i].created_utc <  OwnLatest(f) - W}

\* the emitted Window Metrics Records of (f, W)
RecordsOf(f, W) ==
    {i \in DOMAIN metrics_df :
        metrics_df[i].food = f /\ metrics_df[i].window_days = W}

Aggregated == pc = "aggregated"

\* aggregate_food_metrics has run: it returned, or it raised
Ran == pc \in {"aggregated", "KeyError"}

\* C1: an item with fewer than 5 mention records in the whole stream has no
\* Window Metrics Record, for any window length.
C1_BelowFloorNeverAggregated ==
    Ran =>
        \A f \in FoodSet :
            Cardinality(MentionsOf(f)) < 5 =>
                \A i \in DOMAIN metrics_df : metrics_df[i].food # f

\* C1 witness: a run that emitted records, while an item with exactly 4
\* mentions, all of them inside its own 7-day window, was left out.
C1_Witness ==
    /\ Aggregated
    /\ metrics_df # <<>>
    /\ \E f \in FoodSet :
          /\ Cardinality(MentionsOf(f)) = 4
          /\ InsideWindow(f, 7) = MentionsOf(f)
          /\ \A i \in DOMAIN metrics_df : metrics_df[i].food # f

\* C2: every emitted record of window W has growth_rate = (R - O) / max(O, 1)
\* when O > 0 and growth_rate = 1.0 when O = 0, R and O being the numbers of
\* the item's mentions inside and before the window.
C2_GrowthRate ==
    Aggregated =>
        \A i \in DOMAIN metrics_df :
            LET r == metrics_df[i]
                R == Cardinality(InsideWindow(r.food, r.window_days))
                O == Cardinality(BeforeWindow(r.food, r.window_days))
            IN  IF O > 0
                THEN r.growth_rate.n * Max(O, 1) = (R - O) * r.growth_rate.d
                ELSE r.growth_rate = [n |-> 1, d |-> 1]

\* C2 witness: one run emits a record with a non-empty older period whose
\* growth differs from 1, and a record with an empty older period.
C2_Witness ==
    /\ Aggregated
    /\ \E i, j \in DOMAIN metrics_df :
          /\ BeforeWindow(metrics_df[i].food, metrics_df[i].window_days) # {}
          /\ metrics_df[i].growth_rate # [n |-> 1, d |-> 1]
          /\ BeforeWindow(metrics_df[j].food, metrics_df[j].window_days) = {}
          /\ metrics_df[j].growth_rate = [n |-> 1, d |-> 1]

\* C3: every emitted record has velocity = mention_count / window_days, the
\* divisor being the nominal window length (7, 14 or 30), whatever span of
\* days the item's history covers.
C3_Velocity ==
    Aggregated =>
        \A i \in DOMAIN metrics_df :
            LET r == metrics_df[i]
            IN  /\ r.window_days \in {7, 14, 30}
                /\ r.mention_count = Cardinality(InsideWindow(r.food, r.window_days))
                /\ r.velocity.n * r.window_days = r.mention_count * r.velocity.d

\* C3 witness: an item whose whole history lies on one day has a 30-day
\* record whose velocity is its mention count over 30.
C3_Witness ==
    /\ Aggregated
    /\ \E i \in DOMAIN metrics_df :
          LET r == metrics_df[i]
          IN  /\ r.window_days = 30
              /\ \A k \in MentionsOf(r.food) :
                     food_df[k].created_utc = OwnLatest(r.food)
              /\ r.velocity.n * 30 = Cardinality(MentionsOf(r.food)) * r.velocity.d

\* the number of rows of sequence s equal to row m
CountOf(s, m) == Cardinality({i \in DOMAIN s : s[i] = m})

\* C4: for each item and window length W the aggregator's `recent` and
\* `older` are disjoint and together hold every mention of the item; recent
\* holds the mentions created on or after now - W, older those before it,
\* `now` being the latest creation day among the item's own mentions.
C4_WindowPartition ==
    Aggregated =>
        \A f \in FoodSet : MentionsOf(f) # {} =>
            \A W \in WindowSet :
                LET food_subset == FoodSubset(SortByCreated(food_df), f)
                    now    == Now(food_subset)
                    recent == Recent(food_subset, now - W)
                    older  == Older(food_subset, now - W)
                IN  /\ now = OwnLatest(f)
                    /\ Len(food_subset) = Cardinality(MentionsOf(f))
                    /\ \A i \in MentionsOf(f) :
                          CountOf(recent, food_df[i]) + CountOf(older, food_df[i])
                              = CountOf(food_subset, food_df[i])
                    /\ Len(recent) = Cardinality(InsideWindow(f, W))
                    /\ Len(older)  = Cardinality(BeforeWindow(f, W))
                    /\ \A i \in DOMAIN recent :
                          recent[i].created_utc >= OwnLatest(f) - W
                    /\ \A i \in DOMAIN older :
                          older[i].created_utc < OwnLatest(f) - W
                    /\ \A i \in RecordsOf(f, W) :
                          /\ metrics_df[i].timestamp = OwnLatest(f)
                          /\ metrics_df[i].mention_count = Len(recent)

\* C4 witness: an aggregated item has a mention exactly 7 days before its
\* own latest mention, counted in the 7-day record, a mention before that
\* window, and another item whose latest mention is later than its own.
C4_Witness ==
    /\ Aggregated
    /\ \E f \in FoodSet, g \in FoodSet :
          /\ RecordsOf(f, 7) # {}
          /\ \E i \in InsideWindow(f, 7) :
                food_df[i].created_utc = OwnLatest(f) - 7
          /\ BeforeWindow(f, 7) # {}
          /\ MentionsOf(g) # {}
          /\ OwnLatest(g) > OwnLatest(f)
          /\ \A i \in RecordsOf(f, 7) :
                metrics_df[i].mention_count = Cardinality(InsideWindow(f, 7))

\* C5: an item with at least 5 mentions has exactly one record for each of
\* the window lengths 7, 14 and 30 and no other record, and every emitted
\* record has mention_count >= 1.
C5_OneRecordPerWindow ==
    Aggregated =>
        /\ \A f \in FoodSet :
              Cardinality(MentionsOf(f)) >= 5 =>
                 /\ \A W \in {7, 14, 30} : Cardinality(RecordsOf(f, W)) = 1
                 /\ Cardinality({i \in DOMAIN metrics_df : metrics_df[i].food = f}) = 3
        /\ \A i \in DOMAIN metrics_df : metrics_df[i].mention_count >= 1

\* C5 witness: a qualifying item whose mentions all lie more than 30 days
\* before the latest row of the stream still has its three records.
C5_Witness ==
    /\ Aggregated
    /\ \E f \in FoodSet, g \in FoodSet :
          /\ Cardinality(MentionsOf(f)) >= 5
          /\ MentionsOf(g) # {}
          /\ OwnLatest(g) - 30 > OwnLatest(f)
          /\ Cardinality({i \in DOMAIN metrics_df : metrics_df[i].food = f}) = 3

---------------------------------------------------------------------------
(* What the labelling claims speak of, read off the emitted records and    *)
(* the Trend Score Records by counting.                                    *)

Labelled == pc = "labelled"

\* the 7-day population: the rows of metrics_df of window length 7
WeekRows == {j \in DOMAIN metrics_df : metrics_df[j].window_days = 7}

\* the ranked metrics and the percentile column of each
RankedMetrics == {"velocity", "growth_rate", "avg_engagement"}
PercentileOf(m) ==
    CASE m = "velocity"       -> "velocity_percentile"
      [] m = "growth_rate"    -> "growth_percentile"
      [] m = "avg_engagement" -> "engagement_percentile"

\* how many items of the population have metric m below / equal to / at
\* most the value v
CountBelow(m, v)  == Cardinality({j \in WeekRows : RLt(metrics_df[j][m], v)})
CountEqual(m, v)  == Cardinality({j \in WeekRows : REq(metrics_df[j][m], v)})
CountAtMost(m, v) == Cardinality({j \in WeekRows : RLe(metrics_df[j][m], v)})

One == [n |-> 1, d |-> 1]

\* the k-th smallest trending_score (k counted from 0), found by counting
ScoreAt(k) ==
    LET scores == {labels_df[i].trending_score : i \in DOMAIN labels_df}
        Below(v)  == Cardinality({i \in DOMAIN labels_df :
                                     RLt(labels_df[i].trending_score, v)})
        AtMost(v) == Cardinality({i \in DOMAIN labels_df :
                                     RLe(labels_df[i].trending_score, v)})
    IN  CHOOSE v \in scores : Below(v) <= k /\ k < AtMost(v)

\* the 0.80 quantile of the trending scores by linear interpolation at
\* position 0.8 * (n - 1): with 4 * (n - 1) = 5 * lo + f, the value
\* ((5 - f) * s[lo] + f * s[lo + 1]) / 5
ThresholdByCounting ==
    LET n  == Len(labels_df)
        lo == (4 * (n - 1)) \div 5
        f  == (4 * (n - 1)) % 5
        hi == IF f = 0 THEN lo ELSE lo + 1
    IN  RMul(Rat(1, 5),
             RAdd(RMul(RInt(5 - f), ScoreAt(lo)), RMul(RInt(f), ScoreAt(hi))))

\* C6: an item is labelled is_trending = 1 if and only if its trending_score
\* is at least the 0.80 linear-interpolation quantile of all trending
\* scores of the run; every other item is labelled 0.
C6_LabelIffAtLeastQuantile ==
    Labelled =>
        \A i \in DOMAIN labels_df :
            /\ labels_df[i].is_trending \in {0, 1}
            /\ labels_df[i].is_trending = 1
                  <=> RLe(ThresholdByCounting, labels_df[i].trending_score)

\* C6 witness: in a population of at least 3 items one item scores exactly
\* the threshold and is labelled trending, and another item is labelled 0.
C6_Witness ==
    /\ Labelled
    /\ Len(labels_df) >= 3
    /\ \E i, j \in DOMAIN labels_df :
          /\ REq(labels_df[i].trending_score, ThresholdByCounting)
          /\ labels_df[i].is_trending = 1
          /\ labels_df[j].is_trending = 0

\* the number of items labelled trending
TrendingCount ==
    Cardinality({i \in DOMAIN labels_df : labels_df[i].is_trending = 1})

\* the lowest trending_score among the items labelled trending is held by
\* one item only
BoundaryUntied ==
    \E i \in DOMAIN labels_df :
        /\ labels_df[i].is_trending = 1
        /\ \A j \in DOMAIN labels_df : j # i /\ labels_df[j].is_trending = 1 =>
              RLt(labels_df[i].trending_score, labels_df[j].trending_score)

\* C7 as stated: in a population of n >= 20 items the fraction labelled
\* trending deviates from 0.20 by at most 0.05.
C7_Original ==
    Labelled /\ Len(labels_df) >= 20 =>
        /\ 100 * TrendingCount >= 15 * Len(labels_df)
        /\ 100 * TrendingCount <= 25 * Len(labels_df)

\* C7 amended: in a population of n >= 20 items the fraction labelled
\* trending is never below 0.20, and it is at most 0.25 when the lowest
\* score labelled trending is held by one item only (items tied at that
\* score are all labelled, which can raise the fraction up to 1.0).
C7_FractionAtLeastFifth ==
    Labelled /\ Len(labels_df) >= 20 =>
        /\ 100 * TrendingCount >= 20 * Len(labels_df)
        /\ BoundaryUntied => 100 * TrendingCount <= 25 * Len(labels_df)

\* C7 witness: a population of at least 20 items with an untied boundary,
\* whose trending fraction lies above 0.20 and within 0.25.
C7_Witness ==
    /\ Labelled
    /\ Len(labels_df) >= 20
    /\ BoundaryUntied
    /\ 100 * TrendingCount > 20 * Len(labels_df)
    /\ 100 * TrendingCount <= 25 * Len(labels_df)

\* C8 as stated: the percentile rank of an item with value v equals
\* (number of items of the population with value <= v) / |S| and lies in
\* (0, 1], for each of velocity, growth_rate and avg_engagement.
C8_Original ==
    Labelled =>
        \A i \in DOMAIN labels_df : \A m \in RankedMetrics :
            LET r == labels_df[i]
                p == r[PercentileOf(m)]
            IN  /\ p.n * Cardinality(WeekRows) = CountAtMost(m, r[m]) * p.d
                /\ 0 < p.n /\ p.n <= p.d

\* C8 amended: the percentile rank of an item with value v equals
\* (number of items with value < v + (number of items with value = v + 1) / 2)
\* / |S|, the average rank of the group tied at v; it lies in (0, 1], and it
\* equals (number of items with value <= v) / |S| when no other item has
\* value v.
C8_AverageRankPercentile ==
    Labelled =>
        \A i \in DOMAIN labels_df : \A m \in RankedMetrics :
            LET r == labels_df[i]
                p == r[PercentileOf(m)]
                size  == Cardinality(WeekRows)
                below == CountBelow(m, r[m])
                equal == CountEqual(m, r[m])
            IN  /\ p.n * 2 * size = (2 * below + equal + 1) * p.d
                /\ 0 < p.n /\ p.n <= p.d
                /\ equal = 1 => p.n * size = CountAtMost(m, r[m]) * p.d

\* C8 witness: a labelled population holding an item whose velocity is tied
\* with another item's, and an item whose velocity is untied.
C8_Witness ==
    /\ Labelled
    /\ \E i, j \in DOMAIN labels_df :
          /\ CountEqual("velocity", labels_df[i].velocity) >= 2
          /\ CountEqual("velocity", labels_df[j].velocity) = 1
          /\ labels_df[j].velocity_percentile.n * Cardinality(WeekRows)
                = CountAtMost("velocity", labels_df[j].velocity)
                     * labels_df[j].velocity_percentile.d

\* item i holds the maximum / the minimum of metric m in the population
HoldsMax(i, m) == \A j \in WeekRows : RLe(metrics_df[j][m], labels_df[i][m])
HoldsMin(i, m) == \A j \in WeekRows : RLe(labels_df[i][m], metrics_df[j][m])

\* C9 as stated: every item holding the maximum of a metric has percentile
\* rank 1.0 for it, and every item holding the minimum has the smallest
\* percentile rank assigned in the population.
C9_Original ==
    Labelled =>
        \A i \in DOMAIN labels_df : \A m \in RankedMetrics :
            /\ HoldsMax(i, m) => labels_df[i][PercentileOf(m)] = One
            /\ HoldsMin(i, m) =>
                  \A j \in DOMAIN labels_df :
                      RLe(labels_df[i][PercentileOf(m)], labels_df[j][PercentileOf(m)])

\* C9 amended: every item holding the maximum of a metric has the largest
\* percentile rank assigned in the population, which is 1.0 exactly when
\* the maximum is held by a single item; every item holding the minimum has
\* the smallest percentile rank assigned in the population.
C9_ExtremesGetExtremeRanks ==
    Labelled =>
        \A i \in DOMAIN labels_df : \A m \in RankedMetrics :
            /\ HoldsMax(i, m) =>
                  /\ \A j \in DOMAIN labels_df :
                        RLe(labels_df[j][PercentileOf(m)], labels_df[i][PercentileOf(m)])
                  /\ labels_df[i][PercentileOf(m)] = One
                        <=> CountEqual(m, labels_df[i][m]) = 1
            /\ HoldsMin(i, m) =>
                  \A j \in DOMAIN labels_df :
                      RLe(labels_df[i][PercentileOf(m)], labels_df[j][PercentileOf(m)])

\* C9 witness: a population of at least 3 items in which the highest
\* velocity is held by a single item, whose velocity_percentile is 1.0,
\* and in which the lowest velocity is not the highest.
C9_Witness ==
    /\ Labelled
    /\ Len(labels_df) >= 3
    /\ \E i, j \in DOMAIN labels_df :
          /\ HoldsMax(i, "velocity")
          /\ CountEqual("velocity", labels_df[i].velocity) = 1
          /\ labels_df[i].velocity_percentile = One
          /\ HoldsMin(j, "velocity")
          /\ RLt(labels_df[j].velocity_percentile, One)

\* C10: every Trend Score Record has trending_score = 0.3 *
\* velocity_percentile + 0.4 * growth_percentile + 0.3 *
\* engagement_percentile, the weights summing to 1; the score lies in
\* (0, 1] and is 1.0 only when the three percentiles are all 1.0.
C10_TrendingScore ==
    Labelled =>
        \A i \in DOMAIN labels_df :
            LET r == labels_df[i]
                s == r.trending_score
            IN  /\ 10 * s.n * r.velocity_percentile.d * r.growth_percentile.d
                      * r.engagement_percentile.d
                     = s.d * ( 3 * r.velocity_percentile.n * r.growth_percentile.d
                                 * r.engagement_percentile.d
                             + 4 * r.growth_percentile.n * r.velocity_percentile.d
                                 * r.engagement_percentile.d
                             + 3 * r.engagement_percentile.n * r.velocity_percentile.d
                                 * r.growth_percentile.d )
                /\ 0 < s.n /\ s.n <= s.d
                /\ s = One => /\ r.velocity_percentile = One
                              /\ r.growth_percentile = One
                              /\ r.engagement_percentile = One

\* C10 witness: a population with an item of score 1.0 and an item of lower
\* score whose velocity and growth percentiles differ.
C10_Witness ==
    /\ Labelled
    /\ \E i, j \in DOMAIN labels_df :
          /\ labels_df[i].trending_score = One
          /\ RLt(labels_df[j].trending_score, One)
          /\ labels_df[j].velocity_percentile # labels_df[j].growth_percentile

\* C11: the Trend Score Records are exactly the 7-day Window Metrics
\* Records, one row per qualifying item and in their order; no 14-day or
\* 30-day record appears among them, and the percentile ranks (hence the
\* scores, the threshold and the labels) are taken over the 7-day records
\* only.
C11_OnlyWeekRecords ==
    Labelled =>
        /\ Len(labels_df) = Cardinality(WeekRows)
        /\ \A i \in DOMAIN labels_df : labels_df[i].window_days = 7
        /\ \A i, j \in DOMAIN labels_df :
              labels_df[i].food = labels_df[j].food => i = j
        /\ \A j \in WeekRows : \E i \in DOMAIN labels_df :
              /\ i = Cardinality({k \in WeekRows : k <= j})
              /\ \A c \in DOMAIN metrics_df[j] : labels_df[i][c] = metrics_df[j][c]
        /\ \A i \in DOMAIN labels_df : \A m \in RankedMetrics :
              LET p == labels_df[i][PercentileOf(m)]
              IN  p.n * 2 * Cardinality(WeekRows)
                     = (2 * CountBelow(m, labels_df[i][m])
                          + CountEqual(m, labels_df[i][m]) + 1) * p.d
        /\ \A i \in DOMAIN labels_df :
              labels_df[i].is_trending = 1
                 <=> RLe(ThresholdByCounting, labels_df[i].trending_score)

\* C11 witness: a labelled population of at least two items whose 14-day
\* and 30-day records were among the input, one of them with a velocity
\* no 7-day record has.
C11_Witness ==
    /\ Labelled
    /\ Len(labels_df) >= 2
    /\ Len(metrics_df) = 3 * Len(labels_df)
    /\ \E j \in DOMAIN metrics_df :
          /\ metrics_df[j].window_days = 30
          /\ CountEqual("velocity", metrics_df[j].velocity) = 0

---------------------------------------------------------------------------
(* What the pipeline claims speak of.                                      *)

\* fetch_data has run
Fetched == pc # "store"

\* the run ended with an exception leaving process_pipeline
Raised == pc = "KeyError"

\* C12: when fetch_data yields an empty batch, process_pipeline raises no
\* exception, runs none of the later stages (no mention stream, no record,
\* no label, the scaler never fitted) and returns (None, None, None, None).
C12_EmptyBatchReturnsNone ==
    Fetched /\ posts_df = <<>> =>
        /\ pc = "returned"
        /\ result = NoneResult
        /\ food_df = <<>> /\ metrics_df = <<>> /\ labels_df = <<>>
        /\ scaler = Unfitted

\* C12 witness: the store answers and holds posts, none of which passes the
\* query, and the run has returned.
C12_Witness ==
    /\ pc = "returned"
    /\ store.reachable
    /\ store.posts # <<>>
    /\ posts_df = <<>>
    /\ result = NoneResult

\* the mention stream of the run has been built from a non-empty batch and
\* no food has the 5 mentions that qualify it
NoQualifyingItem ==
    /\ pc \in {"collect", "KeyError", "aggregated", "labelled", "returned"}
    /\ posts_df # <<>>
    /\ \A i \in 1..Len(Foods) : Len(FoodSubset(food_df, Foods[i])) < MinMentions

\* C13 as stated: when the batch is non-empty but no item qualifies, the
\* run ends without result and without an exception leaving
\* process_pipeline.
C13_NoResultIsNonFatal == NoQualifyingItem => ~Raised

\* C17 as stated: when the store cannot be reached during the fetch, the
\* run's outcome reports the failure as such: it is not the outcome of a
\* run whose query selected nothing.
C17_UpstreamUnavailableReported ==
    Fetched /\ ~store.reachable => result.returned # "None"

\* the post has a value for every required column
WellFormed(post) == post.null \cap RequiredFields = {}

\* C16 as stated: a post lacking a required column is skipped: no Mention
\* Record derives from it, and the mention stream is the one the batch
\* yields without it.
C16_MalformedSkipped ==
    pc = "collect" =>
        /\ \A i \in DOMAIN food_df : food_df[i].null \cap RequiredFields = {}
        /\ food_df = create_food_dataset(SelectSeq(posts_df, WellFormed))

---------------------------------------------------------------------------
(* What the training claims speak of.                                      *)

\* the food_predictions table
Table == store.food_predictions

\* the number of posts of the table `posts` that pass the query of
\* fetch_data and mention food f
SelectedMentions(posts, f) ==
    Cardinality({i \in DOMAIN posts :
                    /\ posts[i].score >= MinScore
                    /\ posts[i].created_utc >= Today - DaysBack
                    /\ \E k \in DOMAIN posts[i].food_mentions :
                          posts[i].food_mentions[k] = f})

\* the items a run over `posts` emits
Emitted(posts) == {f \in FoodSet : SelectedMentions(posts, f) >= MinMentions}

\* the last run went through and its upsert was applied
Stored == train.outcome = "stored"

PredictionColumns ==
    {"food", "trending_score", "is_trending", "predicted_trending",
     "trend_probability", "velocity", "growth_rate"}

\* the table holds at most one row per item, and after a run that went
\* through every item the run emitted has its row, which is the row the run
\* emitted for it
C18_TableState ==
    /\ \A i, j \in DOMAIN Table : Table[i].food = Table[j].food => i = j
    /\ Stored =>
          /\ \A f \in Emitted(train.posts) :
                \E i \in DOMAIN Table : \E k \in DOMAIN train.records :
                    /\ Table[i].food = f
                    /\ Table[i] = train.records[k]
                    /\ DOMAIN Table[i] = PredictionColumns
          /\ \A k \in DOMAIN train.records :
                train.records[k].food \in Emitted(train.posts)

\* a run that goes through leaves the rows of the items it does not emit as
\* they were, and a run over the posts of the last run that went through
\* leaves the whole table as it was
C18_RunStep ==
    train'.outcome = "stored" /\ train'.posts = store.posts =>
        /\ \A i \in DOMAIN Table :
              Table[i].food \notin Emitted(store.posts) =>
                  \E j \in DOMAIN store'.food_predictions :
                      store'.food_predictions[j] = Table[i]
        /\ Stored /\ train.posts = store.posts =>
              store'.food_predictions = Table

---------------------------------------------------------------------------
(* What the serving claims speak of.                                       *)

\* predict_new_food was called and found posts to build its metrics from
Measured == call # <<>> /\ call[1].metrics # <<>>

\* C14 as stated: the fit state prepare_features produced on the training
\* batch is the one the service holds and applies in predict_new_food: a
\* call that finds posts, made to a service constructed after a training
\* run went through, is answered with the features scaled by that state.
C14_TrainingScalerApplied ==
    Measured /\ service[1].xgb_model # <<>> =>
        /\ service[1].scaler = scaler
        /\ call[1].response.status = "success"

\* C15: the metrics record predict_new_food builds has exactly the eleven
\* fields of feature_columns, in that order; weekend_ratio is 0.5 and
\* growth_rate is 0.1 whatever the posts are, and velocity is mention_count
\* / days_back.
C15_NewFoodMetrics ==
    Measured =>
        LET metrics == call[1].metrics
        IN  /\ [c \in DOMAIN metrics |-> metrics[c].name] = FeatureColumns
            /\ Len(metrics) = 11
            /\ metrics[7].name = "weekend_ratio"
            /\ 2 * metrics[7].value.n = metrics[7].value.d
            /\ metrics[9].name = "growth_rate"
            /\ 10 * metrics[9].value.n = metrics[9].value.d
            /\ metrics[1].name = "mention_count" /\ metrics[1].value.d = 1
            /\ metrics[8].name = "velocity"
            /\ metrics[8].value.n * call[1].days_back
                  = metrics[1].value.n * metrics[8].value.d

\* C15 witness: a call with a 30-day window that found at least two posts of
\* different scores.
C15_Witness ==
    /\ Measured
    /\ call[1].days_back = 30
    /\ call[1].metrics[1].value.n >= 2
    /\ call[1].metrics[2].value # call[1].metrics[3].value

---------------------------------------------------------------------------
(* Independence of the items in the Window Aggregator.                     *)

\* the mention stream without the rows of any food but f
OwnStream(f) == LET Own(r) == r.food = f IN SelectSeq(food_df, Own)

\* the Window Metrics Records emitted for food f
EmittedFor(f) == LET Of(r) == r.food = f IN SelectSeq(metrics_df, Of)

\* C19: the Window Metrics Records of an item depend on the item's own
\* mention records only: they are the records the aggregator emits for the
\* stream with every other item's rows removed, so two streams that agree
\* on the item's rows yield the same records for it.
C19_ItemsIndependent ==
    Ran => \A f \in FoodSet : EmittedFor(f) = aggregate_food_metrics(OwnStream(f))

\* C19 witness: an item is aggregated from a stream that also holds rows of
\* another item, one of them later than every mention of the first.
C19_Witness ==
    /\ Aggregated
    /\ \E f, g \in FoodSet :
          /\ f # g
          /\ EmittedFor(f) # <<>>
          /\ Len(OwnStream(g)) >= 2
          /\ \E i \in MentionsOf(g) :
                food_df[i].created_utc > EmittedFor(f)[1].timestamp

---------------------------------------------------------------------------
(* What the extraction claim speaks of.                                    *)

\* the keyword occurs in the lower-cased text at offset o
OccursAt(chars, o) ==
    /\ o + Len(chars) <= Len(text)
    /\ \A j \in 1..Len(chars) : LowerChar(text[o + j]) = chars[j]

\* the vocabulary keywords that occur as substrings of the lower-cased text
Occurring ==
    {food_keywords[k].food : k \in
        {k \in 1..Len(food_keywords) :
            \E o \in 0..Len(text) : OccursAt(food_keywords[k].chars, o)}}

\* C20: extract_food_mentions(text) returns, without duplicates, exactly
\* the vocabulary keywords that occur as substrings of the lower-cased
\* text, wherever they occur and whatever other keyword occurs with them;
\* the result is empty when none occurs.
C20_ExtractsOccurringKeywords ==
    pc = "extracted" =>
        /\ {found_foods[i] : i \in 1..Len(found_foods)} = Occurring
        /\ \A i, j \in 1..Len(found_foods) :
              found_foods[i] = found_foods[j] => i = j
        /\ Occurring = {} => found_foods = <<>>

\* C20 witness: a text with a capital letter in which two keywords overlap,
\* neither at the beginning alone, both returned.
C20_Witness ==
    /\ pc = "extracted"
    /\ Len(found_foods) = 2
    /\ Len(text) = 5
    /\ \E i \in 1..Len(text) : text[i] # LowerChar(text[i])

---------------------------------------------------------------------------
(* What the dataset claim speaks of.                                       *)

\* the mention stream of the run has been built from a non-empty batch
DatasetBuilt ==
    /\ pc \in {"collect", "KeyError", "aggregated", "labelled", "returned"}
    /\ posts_df # <<>>

\* the rows of the mention stream that pair post p of the batch with food f
PairRows(p, f) ==
    {i \in DOMAIN food_df :
        food_df[i].post_id = posts_df[p].post_id /\ food_df[i].food = f}

\* post p of the batch lists food f
Lists(p, f) ==
    \E k \in DOMAIN posts_df[p].food_mentions : posts_df[p].food_mentions[k] = f

\* C21: the mention stream holds exactly one Mention Record per (document,
\* item) pair: one for every item a document lists, carrying the
\* document's score, comment count, approval ratio, engagement score,
\* timestamp and community, none for a document without items, and no pair
\* twice.
C21_OneRecordPerPair ==
    DatasetBuilt =>
        /\ \A p \in DOMAIN posts_df : \A f \in FoodSet :
              /\ Cardinality(PairRows(p, f)) = (IF Lists(p, f) THEN 1 ELSE 0)
              /\ \A i \in PairRows(p, f) :
                    /\ food_df[i].score = posts_df[p].score
                    /\ food_df[i].num_comments = posts_df[p].num_comments
                    /\ food_df[i].upvote_ratio = posts_df[p].upvote_ratio
                    /\ food_df[i].created_utc = posts_df[p].created_utc
                    /\ food_df[i].subreddit = posts_df[p].subreddit
                    /\ food_df[i].engagement_score = posts_df[p].engagement_score
        /\ \A i \in DOMAIN food_df :
              \E p \in DOMAIN posts_df : \E f \in FoodSet : i \in PairRows(p, f)
        /\ \A p \in DOMAIN posts_df :
              Cardinality({i \in DOMAIN food_df :
                              food_df[i].post_id = posts_df[p].post_id})
                 = Len(posts_df[p].food_mentions)

\* C21 witness: the batch holds a post listing two foods, which has its two
\* records, and a post listing none.
C21_Witness ==
    /\ DatasetBuilt
    /\ \E p, q \in DOMAIN posts_df :
          /\ Len(posts_df[p].food_mentions) = 2
          /\ \A f \in FoodSet : Cardinality(PairRows(p, f)) = 1
          /\ posts_df[q].food_mentions = <<>>

---------------------------------------------------------------------------
(* What the engagement claim speaks of.                                    *)

\* calculate_engagement_score has run on the batch
Enriched ==
    /\ pc \in {"enriched", "collect", "KeyError", "aggregated", "labelled",
               "returned"}
    /\ posts_df # <<>>

\* C22: the engagement score of every document of the batch is score * 1.0
\* + num_comments * 2.0 + upvote_ratio * 100.0, and it is the value
\* utils.calculate_engagement_score gives for the document's score, comment
\* count and approval ratio.
C22_EngagementScore ==
    Enriched =>
        \A p \in DOMAIN posts_df :
            LET row == posts_df[p]
                e   == row.engagement_score
                r   == row.upvote_ratio
            IN  /\ e.d > 0
                /\ e.n * r.d
                     = e.d * (row.score * r.d + 2 * row.num_comments * r.d
                              + 100 * r.n)
                /\ REq(e, utils_calculate_engagement_score(
                              row.score, row.num_comments, <<r>>))

\* C22 witness: the batch holds a document with comments and a fractional
\* approval ratio, and a document without comments.
C22_Witness ==
    /\ Enriched
    /\ \E p, q \in DOMAIN posts_df :
          /\ posts_df[p].num_comments > 0
          /\ posts_df[p].upvote_ratio.d > 1
          /\ posts_df[q].num_comments = 0

---------------------------------------------------------------------------
(* The baseline of the growth rate.                                        *)

\* the number of f's mentions in the period of length W that precedes the
\* window of length W ending at `now`: created in [now - 2W, now - W)
PrecedingPeriod(f, W, now) ==
    Cardinality({i \in MentionsOf(f) :
                    /\ now - 2 * W <= food_df[i].created_utc
                    /\ food_df[i].created_utc < now - W})

\* C23 as stated: the baseline count of growth_rate for window length W is
\* the number of the item's mentions created in [now - 2W, now - W);
\* mentions older than now - 2W do not count.
C23_BaselineIsPrecedingPeriod ==
    Aggregated =>
        \A j \in DOMAIN metrics_df :
            LET r        == metrics_df[j]
                baseline == PrecedingPeriod(r.food, r.window_days, r.timestamp)
            IN  IF baseline > 0
                THEN r.growth_rate.n * baseline
                        = (r.mention_count - baseline) * r.growth_rate.d
                ELSE r.growth_rate = RInt(1)

---------------------------------------------------------------------------
(* Repeatable preparation.                                                 *)

\* a call of prepare_features is going on
Preparing == pc = "labelled" /\ pc' = "returned"

\* what a fresh processor returns for the batch, and the fit it is left with
FreshlyPrepared == prepare_features(Unfitted, labels_df)

C24_Step ==
    Preparing =>
        /\ scaler' = FreshlyPrepared.scaler
        /\ result'.value.X = FreshlyPrepared.X_scaled_df
        /\ result'.value.y = FreshlyPrepared.y
        /\ result'.value.feature_columns = FeatureColumns
        /\ Len(FeatureColumns) = 11
        /\ Len(result'.value.X) = Len(labels_df)
        /\ Len(result'.value.y) = Len(labels_df)
        /\ \A i \in DOMAIN labels_df :
              /\ Len(result'.value.X[i]) = 11
              /\ result'.value.y[i] = labels_df[i].is_trending
        /\ (/\ result.returned = "value"
            /\ result.value.metrics_df = labels_df) => result' = result

\* C24: every call of prepare_features, whatever the processor prepared
\* before, returns the matrix, the labels and the columns a fresh processor
\* returns for the same batch and leaves the same fit; a second call on the
\* batch of the last call returns what that call returned; the matrix has the
\* eleven columns in order and one row per record, the labels are aligned
\* with the rows.
C24_PrepareRepeatable == [][C24_Step]_vars

\* C24 witness: a batch of two items with different labels has been prepared
\* again by a processor that stayed fitted from the first call.
C24_Witness ==
    /\ pc = "labelled"
    /\ result.returned = "value"
    /\ result.value.metrics_df = labels_df
    /\ scaler # Unfitted
    /\ Len(labels_df) = 2
    /\ labels_df[1].is_trending # labels_df[2].is_trending

---------------------------------------------------------------------------
(* Concurrent runs.                                                        *)

\* run r is over
Finished(r) == runs[r].at \in {"stored", "not_stored", "raised", "no_data"}

\* the items run r emitted a row for
ItemsOf(r) == {runs[r].records[i].food : i \in 1..Len(runs[r].records)}

\* the row run r emitted for item f
RowOf(r, f) ==
    runs[r].records[CHOOSE i \in 1..Len(runs[r].records) :
                        runs[r].records[i].food = f]

\* the positions in the order of application of the upserts that wrote item f
WritesOf(f) == {k \in 1..Len(applied) : f \in ItemsOf(applied[k])}

\* the run whose upsert wrote item f last
LastWriter(f) ==
    applied[CHOOSE k \in WritesOf(f) : \A j \in WritesOf(f) : j <= k]

\* C25: once both runs are over, the table holds one row per item written,
\* the row of every item is the whole row emitted by the run whose upsert of
\* that item was applied last, and an item no applied upsert wrote has no
\* row; whenever a run is at its upsert, the store can apply it, whatever the
\* other run has done.
C25_LastWriteWins ==
    /\ (\A r \in Runs : Finished(r)) =>
          /\ \A i, j \in 1..Len(Table) :
                Table[i].food = Table[j].food => i = j
          /\ \A i \in 1..Len(Table) :
                /\ WritesOf(Table[i].food) # {}
                /\ Table[i] = RowOf(LastWriter(Table[i].food), Table[i].food)
          /\ \A r \in Runs : \A f \in ItemsOf(r) :
                r \in {applied[k] : k \in 1..Len(applied)}
                    => \E i \in 1..Len(Table) : Table[i].food = f
    /\ \A r \in Runs :
          runs[r].at = "upsert" =>
              ENABLED (RunUpsert(r) /\ runs'[r].at = "stored")

\* C25 witness: both runs are over, both upserts were applied, the runs
\* emitted different rows for an item, and the second run applied wrote an
\* item less than the first.
C25_Witness ==
    /\ \A r \in Runs : Finished(r)
    /\ Len(applied) = 2
    /\ \E f \in ItemsOf(1) \cap ItemsOf(2) : RowOf(1, f) # RowOf(2, f)
    /\ ItemsOf(applied[1]) \ ItemsOf(applied[2]) # {}

---------------------------------------------------------------------------
(* Batched upload.                                                         *)

\* the posts of the committed batches, in the order they were committed
Written == Concat(upload.batches)

\* C26 (state): the committed batches are the first batches of the list cut
\* into consecutive batches of at most 100 (each of 100 posts but the last of
\* the list), so that the posts written are a prefix of the input, in input
\* order, each once; True is returned only with every post written, False
\* with the batch after the committed ones and all later posts unwritten.
C26_Batches ==
    /\ \A k \in 1..Len(upload.batches) :
          /\ Len(upload.batches[k]) \in 1..100
          /\ upload.batches[k] = batch_process(upload.posts, 100)[k]
          /\ Len(upload.batches[k]) < 100 => Written = upload.posts
    /\ Written = SubSeq(upload.posts, 1, Len(Written))
    /\ \A p, q \in 1..Len(Written) : Written[p] = Written[q] => p = q
    /\ upload.returned = "True" => Written = upload.posts
    /\ upload.returned = "False" =>
          /\ Len(Written) = 100 * Len(upload.batches)
          /\ Len(Written) < Len(upload.posts)

\* C26 (step): a call that returned sends nothing more.
C26_Returned ==
    upload.returned \in {"True", "False"} => upload' = upload

\* C26: store_posts_in_supabase sends consecutive batches of at most 100 in
\* input order, each post in one batch; when the upsert of batch k fails the
\* batches before k stay committed, batch k and the later ones are not
\* written and not retried, and False is returned; True is returned only
\* when every batch was written.
C26_BatchedUpload == [](C26_Batches) /\ [][C26_Returned]_vars

\* C26 witness: the upsert of the third batch failed after two batches were
\* committed.
C26_Witness ==
    /\ upload.returned = "False"
    /\ Len(upload.batches) = 2
    /\ Len(upload.posts) > 200

---------------------------------------------------------------------------
(* Engagement of a food asked about by name.                               *)

\* the mean of score * 1.0 + comments * 2.0 + approval_ratio * 100.0 over the
\* posts of the call, from the means the metrics record holds (the mean of a
\* sum is the sum of the means)
MeanEngagement(metrics) ==
    RAdd(RAdd(metrics[2].value, RMul(RInt(2), metrics[4].value)),
         RMul(RInt(100), metrics[10].value))

\* C27 as stated: in predict_new_food avg_engagement is the mean and
\* total_engagement the sum, over the posts found, of the engagement score
\* score * 1.0 + comments * 2.0 + approval_ratio * 100.0 of the batch path.
C27_NewFoodEngagement ==
    Measured =>
        LET metrics == call[1].metrics
        IN  /\ metrics[5].name = "avg_engagement"
            /\ REq(metrics[5].value, MeanEngagement(metrics))
            /\ metrics[11].name = "total_engagement"
            /\ REq(metrics[11].value,
                   RMul(metrics[1].value, MeanEngagement(metrics)))

---------------------------------------------------------------------------
(* Somebody is always trending.                                            *)

\* C28: in every labelled non-empty population at least one item is
\* labelled is_trending = 1; the item of a one-item population has its three
\* percentile ranks and its trending_score at 1.0 and is labelled trending;
\* the labels are monotone in the score: an item scoring at least as much as
\* an item labelled trending is labelled trending.
C28_SomeItemTrending ==
    Labelled /\ Len(labels_df) >= 1 =>
        /\ TrendingCount >= 1
        /\ Len(labels_df) = 1 =>
              /\ labels_df[1].velocity_percentile = One
              /\ labels_df[1].growth_percentile = One
              /\ labels_df[1].engagement_percentile = One
              /\ labels_df[1].trending_score = One
              /\ labels_df[1].is_trending = 1
        /\ \A i, j \in DOMAIN labels_df :
              /\ labels_df[i].is_trending = 1
              /\ RLe(labels_df[i].trending_score, labels_df[j].trending_score)
              => labels_df[j].is_trending = 1

\* C28 witness: a one-item population has been labelled.
C28_Witness ==
    /\ Labelled
    /\ Len(labels_df) = 1
    /\ labels_df[1].is_trending = 1

\* C28 second case: a population of four items of which one is labelled
\* trending and three are not.
C28_WitnessMany ==
    /\ Labelled
    /\ Len(labels_df) = 4
    /\ TrendingCount = 1

---------------------------------------------------------------------------
(* The counts of the three windows of an item.                             *)

\* the mention_count of the record emitted for (f, W)
EmittedCount(f, W) ==
    metrics_df[CHOOSE i \in RecordsOf(f, W) : TRUE].mention_count

\* C29: for every item with at least 5 mentions the three records are
\* emitted and mention_count(7) <= mention_count(14) <= mention_count(30) <=
\* the number of the item's mentions; in each window the recent count and the
\* older count the growth_rate was computed from sum to that number; every
\* growth_rate is greater than -1.
C29_WindowCounts ==
    Aggregated =>
        \A f \in FoodSet :
            LET total == Cardinality(MentionsOf(f))
            IN  total >= 5 =>
                  /\ \A W \in {7, 14, 30} : RecordsOf(f, W) # {}
                  /\ EmittedCount(f, 7) <= EmittedCount(f, 14)
                  /\ EmittedCount(f, 14) <= EmittedCount(f, 30)
                  /\ EmittedCount(f, 30) <= total
                  /\ \A W \in {7, 14, 30} : \A i \in RecordsOf(f, W) :
                        LET R == metrics_df[i].mention_count
                            O == total - R
                            g == metrics_df[i].growth_rate
                        IN  /\ R >= 1 /\ O >= 0
                            /\ IF O > 0 THEN g.n * O = (R - O) * g.d
                               ELSE g = RInt(1)
                            /\ g.d > 0
                            /\ g.n > 0 - g.d

\* C29 witness: an item whose 7-day count is below its 14-day count, whose
\* 30-day count is below its number of mentions, and whose 7-day growth_rate
\* is negative.
C29_Witness ==
    /\ Aggregated
    /\ \E f \in FoodSet :
          /\ Cardinality(MentionsOf(f)) >= 5
          /\ \A W \in {7, 14, 30} : RecordsOf(f, W) # {}
          /\ EmittedCount(f, 7) < EmittedCount(f, 14)
          /\ EmittedCount(f, 30) < Cardinality(MentionsOf(f))
          /\ \E i \in RecordsOf(f, 7) : metrics_df[i].growth_rate.n < 0

---------------------------------------------------------------------------
(* predict_new_food always answers.                                        *)

\* the statuses predict_new_food answers with
Statuses == {"no_data", "error", "success"}

\* C30 (state): the last call was answered with a record for the food asked
\* about whose status is one of the three; an error carries its message, a
\* success its prediction and its metrics.
C30_Answered ==
    call # <<>> =>
        LET response == call[1].response
        IN  /\ response.food = call[1].food_name
            /\ response.status \in Statuses
            /\ response.status = "error" => "message" \in DOMAIN response
            /\ response.status = "success" =>
                  {"prediction", "metrics"} \subseteq DOMAIN response

\* C30 (step): a call leaves the store as it is; it answers no_data exactly
\* when the store answered and holds no matching post, and error whenever
\* the store does not answer, the scaler is not fitted or no classifier is
\* loaded.
C30_Call ==
    call' # call =>
        LET asked == call'[1]
            found == PostsMentioning(store.posts, Lower(asked.food_name),
                                     asked.days_back)
        IN  /\ store' = store
            /\ asked.response.status = "no_data"
                  <=> store.reachable /\ found = <<>>
            /\ (\/ ~store.reachable
                \/ found # <<>> /\ service[1].scaler = Unfitted
                \/ found # <<>> /\ service[1].xgb_model = <<>>)
                  => asked.response.status = "error"

\* C30: predict_new_food returns, for every input and every failure of the
\* store, the scaler or the classifier, a record whose status is exactly one
\* of no_data, error and success, and writes nothing to the store.
C30_AlwaysAnswers == [](C30_Answered) /\ [][C30_Call]_vars

\* C30 witness: a call made while the store does not answer, to a service
\* that loaded a trained classifier, was answered with status error.
C30_Witness ==
    /\ call # <<>>
    /\ ~store.reachable
    /\ service[1].xgb_model # <<>>
    /\ call[1].response.status = "error"
    /\ call[1].response.message = "store"

===========================================================================
